---- MODULE Spec2Model ----
(***************************************************************************)
(* The outbound request bridge of the TodayPickup API wrapper, in its      *)
(* three variants (TodayPickupRepository.request, BaseRepository._request, *)
(* HTTPClient._make_request followed by BaseRepository._handle_response),  *)
(* and the repository, service and controller layers that call it.         *)
(***************************************************************************)
EXTENDS Integers, Sequences, FiniteSets, TLC

VARIABLES
    task,          \* task[t]: the inbound request / invocation handled by coroutine t
    invocations,   \* number of forward invocations made so far
    calls,         \* number of client.request calls put on the wire so far
    process        \* the application process: its httpx clients and its phase

vars == <<task, invocations, calls, process>>

(***************************************************************************)
(* Bounds of the model.                                                    *)
(***************************************************************************)
MaxTasks == 2
MaxInvocations == 3

Tasks == 1..MaxTasks

(***************************************************************************)
(* Program constants.                                                      *)
(***************************************************************************)
HTTP_TIMEOUT == 30
HTTP_RETRIES == 3
TODAYPICKUP_BASE_URL == "https://admin.todaypickup.com"

(***************************************************************************)
(* Python values.  Optional[X] is a sequence of length 0 (None) or 1; a    *)
(* dict is a function from its keys; `if d:` is false for None and {}.     *)
(***************************************************************************)
None == << >>
Some(x) == << x >>
EmptyDict == << >>
Truthy(o) == o # None /\ DOMAIN o[1] # {}

\* dict.update: the entries of `other` win over the entries of `d`
DictUpdate(d, other) == other @@ d

(***************************************************************************)
(* The Outbound Call Descriptor: the arguments of one forward invocation.  *)
(***************************************************************************)
Methods == {"GET", "POST", "PUT", "DELETE"}

Endpoints == {"/api/mall/delivery/INV123", "/api/agency/auth"}

HeaderChoices ==
    { None,
      Some(EmptyDict),
      Some("Authorization" :> "Bearer t"),
      Some(("Authorization" :> "x") @@ ("agencyId" :> "A1")),
      Some(("Authorization" :> "x") @@ ("Content-Type" :> "text/plain")) }

ParamChoices == { None, Some("address" :> "1 Main St") }

BodyChoices ==
    { None, Some(EmptyDict),
      Some(("invoiceNumber" :> "INV1") @@ ("status" :> "DELIVERED")) }

Descriptor(method, endpoint, data, params, headers) ==
    [method |-> method, endpoint |-> endpoint, data |-> data,
     params |-> params, headers |-> headers]

(***************************************************************************)
(* The upstream: a response (status code and body text) or a transport     *)
(* failure raised by the HTTP library.                                     *)
(***************************************************************************)
JSON_IN_TRANSIT == "{\"status\": \"in_transit\"}"
JSON_INVALID_TOKEN == "{\"error\": \"invalid token\"}"

StatusCodes == {200, 204, 301, 401, 500}
BodyTexts == {JSON_IN_TRANSIT, JSON_INVALID_TOKEN, "Bad Gateway", ""}

Responses == [status_code : StatusCodes, text : BodyTexts]

\* httpx.RequestError subclasses: DNS failure / refused connection, timeout
TransportCauses == {"ConnectError", "ReadTimeout"}

\* Response.json(): the parsed body, or None when the text is not JSON
\* (json.JSONDecodeError, a ValueError)
ResponseJson(text) ==
    CASE text = JSON_IN_TRANSIT    -> Some("status" :> "in_transit")
      [] text = JSON_INVALID_TOKEN -> Some("error" :> "invalid token")
      [] OTHER                     -> None

\* Response.is_success
IsSuccess(status_code) == 200 <= status_code /\ status_code <= 299

(***************************************************************************)
(* Outcomes of a call, as the caller sees them: a returned value or a      *)
(* raised exception.  status: the status code the value or exception       *)
(* carries; text: the text it carries; data: the structured value it       *)
(* carries; cause: the transport exception it is.                          *)
(***************************************************************************)
Returned(type, status, text, data) ==
    [kind |-> "return", type |-> type, status |-> status, text |-> text,
     data |-> data, cause |-> None]

Raised(type, status, text, data, cause) ==
    [kind |-> "raise", type |-> type, status |-> status, text |-> text,
     data |-> data, cause |-> cause]

\* Response.raise_for_status() followed by `return response`: the
\* HTTPStatusError holding the response, or the response itself
RaiseForStatus(resp) ==
    IF IsSuccess(resp.status_code)
    THEN Returned("Response", Some(resp.status_code), Some(resp.text), None)
    ELSE Raised("HTTPStatusError", Some(resp.status_code), Some(resp.text),
                None, None)

(***************************************************************************)
(* State of one task.                                                      *)
(*   pc        idle | await (client.request in flight) | returned (the     *)
(*             HTTPClient handed back a Response) | done (the bridge has   *)
(*             returned or raised) | repo (a service awaits its repository *)
(*             method) | replied (the layer entered has answered)          *)
(*   entry     the layer the task entered at                               *)
(*   bridge    the bridge variant that serves it                           *)
(*   desc      the descriptor given to the bridge                          *)
(*   sent      the arguments of client.request, and the client used        *)
(*   nsent     client.request calls issued for this invocation             *)
(*   response  the response the upstream gave                              *)
(*   failure   the transport exception client.request raised               *)
(*   outcome   what the bridge handed to its caller                        *)
(*   result    what the layer entered handed to its caller                 *)
(*   route     the endpoint function that handles the request              *)
(*   envelope  what the service method handed to its caller                *)
(*   repoCalls repository methods called by the service                    *)
(*   repoArgs  the arguments of that repository call                       *)
(*   again     the same task had just completed the same invocation        *)
(*   log       the steps taken for this task, in order                     *)
(***************************************************************************)
IdleTask ==
    [pc |-> "idle", entry |-> "none", bridge |-> "none", op |-> "none",
     input |-> None, desc |-> None, sent |-> None, nsent |-> 0,
     response |-> None, failure |-> None, outcome |-> None, result |-> None,
     route |-> "none", envelope |-> None,
     repoCalls |-> 0, repoArgs |-> None, again |-> FALSE, objects |-> None,
     log |-> << >>]

\* One inbound request at a time: a task starts when every task is idle.
CanStart(t) ==
    /\ \A u \in Tasks : task[u].pc = "idle"
    /\ invocations < MaxInvocations
    /\ process.phase = "running"

(***************************************************************************)
(* The process.  lifespan has built AgencyService() and MallService();     *)
(* each builds its repository, whose __init__ builds one httpx.AsyncClient.*)
(*   phase    running | stopped (lifespan has left its shutdown part)      *)
(*   created  httpx.AsyncClient instances constructed so far               *)
(*   open     clients constructed while handling a request and not closed  *)
(*   closes   aclose() calls made on the client of each service's          *)
(*            repository                                                   *)
(*   error    the exception lifespan ended with                            *)
(*   attrs    the attributes of the bridge objects                         *)
(*   closed   the repositories on which close() has been awaited           *)
(*   late     client.request calls made on a client after its aclose()     *)
(***************************************************************************)
StartupClients == 2

\* the attributes __init__ gives each bridge object: base_url, timeout (the
\* repositories keep none) and client (HTTPClient keeps none)
BridgeAttributes ==
    [BaseRepository |->
        [base_url |-> TODAYPICKUP_BASE_URL, timeout |-> None,
         client |-> Some("httpx.AsyncClient")],
     TodayPickupRepository |->
        [base_url |-> TODAYPICKUP_BASE_URL, timeout |-> None,
         client |-> Some("httpx.AsyncClient")],
     HTTPClient |->
        [base_url |-> TODAYPICKUP_BASE_URL, timeout |-> Some(HTTP_TIMEOUT),
         client |-> None]]

ProcessStarted ==
    [phase |-> "running", created |-> StartupClients, open |-> 0,
     closes |-> [agency_service |-> 0, mall_service |-> 0], error |-> None,
     attrs |-> BridgeAttributes, closed |-> {}, late |-> 0]

\* httpx.AsyncClient(...) is constructed while a request is handled
ClientConstructed(p) == [p EXCEPT !.created = @ + 1, !.open = @ + 1]

\* the `async with` block of _make_request is left: __aexit__ closes the
\* client
ClientReleased(p) == [p EXCEPT !.open = @ - 1]

\* The clients a bridge constructs for one invocation: BaseRepository and
\* TodayPickupRepository use self.client, HTTPClient._make_request builds
\* its own.
ClientsOnForward(variant, p) ==
    IF variant = "HTTPClient" THEN ClientConstructed(p) ELSE p

\* ... and releases when client.request has returned or raised
ClientsOnAnswer(variant, p) ==
    IF variant = "HTTPClient" THEN ClientReleased(p) ELSE p

(***************************************************************************)
(* The three bridges: the arguments each gives to client.request.          *)
(***************************************************************************)
WireCall(method, url, json, params, headers, base_url, timeout) ==
    [method |-> method, url |-> url, json |-> json, params |-> params,
     headers |-> headers, base_url |-> base_url, timeout |-> timeout]

\* Faulty variant: the query parameters are not handed on.
BaseRepository_request_call_NoParams(d) ==
    WireCall(d.method, d.endpoint, d.data, None, d.headers,
             Some(TODAYPICKUP_BASE_URL), None)

\* self.client.request(method, endpoint, json=data, params=params,
\* headers=headers) on httpx.AsyncClient(base_url=self.base_url)
BaseRepository_request_call(d) ==
    WireCall(d.method, d.endpoint, d.data, d.params, d.headers,
             Some(TODAYPICKUP_BASE_URL), None)

\* self.client.request(method, path, headers=headers, json=json)
TodayPickupRepository_request_call(d) ==
    WireCall(d.method, d.endpoint, d.data, None, d.headers,
             Some(TODAYPICKUP_BASE_URL), None)

\* default_headers of HTTPClient._make_request
DefaultHeaders ==
    ("Content-Type" :> "application/json") @@ ("Accept" :> "application/json")

\* Faulty variant: the defaults are written over the caller's entries.
MergedHeaders_DefaultsWin(headers) ==
    IF Truthy(headers) THEN DictUpdate(headers[1], DefaultHeaders)
    ELSE DefaultHeaders

\* `if headers: default_headers.update(headers)`
MergedHeaders(headers) ==
    IF Truthy(headers) THEN DictUpdate(DefaultHeaders, headers[1])
    ELSE DefaultHeaders

\* client.request(method=method, url=f"{self.base_url}{endpoint}",
\* headers=default_headers, params=params, json=json_data) on a fresh
\* httpx.AsyncClient(timeout=self.timeout)
HTTPClient_make_request_call(d) ==
    WireCall(d.method, TODAYPICKUP_BASE_URL \o d.endpoint, d.data, d.params,
             Some(MergedHeaders(d.headers)), None, Some(HTTP_TIMEOUT))

BridgeCall(variant, d) ==
    CASE variant = "BaseRepository"        -> BaseRepository_request_call(d)
      [] variant = "TodayPickupRepository" -> TodayPickupRepository_request_call(d)
      [] variant = "HTTPClient"            -> HTTPClient_make_request_call(d)

(***************************************************************************)
(* The mappings an invocation can reach, by the name that refers to each:  *)
(* the caller's headers, params and data, and the dict literal             *)
(* default_headers that HTTPClient._make_request builds.                   *)
(***************************************************************************)
Reachable(d) ==
    [headers |-> d.headers, params |-> d.params, data |-> d.data,
     default_headers |-> Some(DefaultHeaders)]

\* Faulty variant: `headers.update(default_headers)`, the defaults are
\* written into the caller's dict.
MergeStatement_IntoCaller(d) ==
    [target |-> "headers", source |-> "default_headers"]

\* `default_headers.update(headers)`: the dict written to, the dict read
MergeStatement(d) ==
    [target |-> "default_headers", source |-> "headers"]

\* the mappings once the bridge has run up to its client.request: only
\* HTTPClient._make_request has a statement that writes to a mapping
ObjectsAfter(variant, d) ==
    LET o == Reachable(d)
        s == MergeStatement(d)
    IN IF variant = "HTTPClient" /\ Truthy(d.headers)
       THEN [o EXCEPT ![s.target] = Some(DictUpdate(o[s.target][1], o[s.source][1]))]
       ELSE o

\* The task once the bridge has issued its client.request and awaits it.
Issue(tk, entry, variant, d) ==
    [IdleTask EXCEPT
        !.pc = "await", !.entry = entry, !.bridge = variant, !.op = tk.op,
        !.input = tk.input, !.repoCalls = tk.repoCalls,
        !.desc = Some(d), !.sent = Some(BridgeCall(variant, d)), !.nsent = 1,
        !.objects = Some(ObjectsAfter(variant, d)),
        !.log = Append(tk.log, "client.request")]

(***************************************************************************)
(* What each bridge does with the upstream's answer.                       *)
(***************************************************************************)
\* BaseRepository._request: raise_for_status(); return response; an
\* HTTPStatusError is printed and re-raised
BaseRepository_request_result(resp) == RaiseForStatus(resp)

\* TodayPickupRepository.request: raise_for_status(); return response
TodayPickupRepository_request_result(resp) == RaiseForStatus(resp)

\* HTTPClient._make_request: logs the status and returns the response
HTTPClient_make_request_result(resp) ==
    Returned("Response", Some(resp.status_code), Some(resp.text), None)

OnResponse(tk, resp) ==
    LET out == CASE tk.bridge = "BaseRepository" ->
                        BaseRepository_request_result(resp)
                 [] tk.bridge = "TodayPickupRepository" ->
                        TodayPickupRepository_request_result(resp)
                 [] tk.bridge = "HTTPClient" ->
                        HTTPClient_make_request_result(resp)
    IN [tk EXCEPT !.pc = IF tk.bridge = "HTTPClient" THEN "returned" ELSE "done",
                  !.response = Some(resp),
                  !.outcome = Some(out),
                  !.log = Append(@, "response")]

\* Faulty variant: the request is sent again, up to HTTP_RETRIES times,
\* before the failure is raised.
OnRequestError_Retry(tk, cause) ==
    IF tk.nsent < HTTP_RETRIES
    THEN [tk EXCEPT !.nsent = @ + 1, !.log = Append(@, "client.request")]
    ELSE [tk EXCEPT !.pc = "done",
                    !.failure = Some(cause),
                    !.outcome = Some(Raised("RequestError", None, None, None,
                                            Some(cause))),
                    !.log = Append(@, "request error")]

\* Faulty variant: the failure is swallowed and an empty response returned.
OnRequestError_Swallow(tk, cause) ==
    [tk EXCEPT !.pc = "done",
               !.failure = Some(cause),
               !.outcome = Some(Returned("Response", None, Some(""), None)),
               !.log = Append(@, "request error")]

\* A transport failure of client.request: BaseRepository._request prints
\* and re-raises the httpx.RequestError; the two others have no handler.
OnRequestError(tk, cause) ==
    [tk EXCEPT !.pc = "done",
               !.failure = Some(cause),
               !.outcome = Some(Raised("RequestError", None, None, None,
                                       Some(cause))),
               !.log = Append(@, "request error")]

\* BaseRepository._handle_response (the HTTPClient variant)
HandleResponse(resp) ==
    LET parsed == ResponseJson(resp.text) IN
    IF IsSuccess(resp.status_code) /\ parsed # None
    THEN Returned("json", None, None, parsed)
    ELSE IF parsed # None
    THEN Raised("Exception", None, None, parsed, None)
    ELSE Raised("Exception", Some(resp.status_code),
                Some(IF IsSuccess(resp.status_code) THEN "JSONDecodeError"
                     ELSE "HTTPStatusError"),
                None, None)

(***************************************************************************)
(* Actions of the bridge.                                                  *)
(***************************************************************************)
DescriptorsBase ==
    { Descriptor(m, e, b, p, h) :
        m \in Methods, e \in Endpoints, b \in BodyChoices,
        p \in ParamChoices, h \in HeaderChoices }

\* TodayPickupRepository.request takes a header dict and no params
DescriptorsRemote ==
    { Descriptor(m, e, b, None, h) :
        m \in Methods, e \in Endpoints, b \in BodyChoices,
        h \in HeaderChoices \ {None} }

Forward(t, variant, d, again) ==
    /\ task' = [task EXCEPT ![t] =
                  [Issue(IdleTask, "bridge", variant, d) EXCEPT
                      !.op = "forward", !.again = again]]
    /\ invocations' = invocations + 1
    /\ calls' = calls + task'[t].nsent
    /\ process' = ClientsOnForward(variant, process)

BaseRepository_request(t) ==
    CanStart(t) /\ \E d \in DescriptorsBase : Forward(t, "BaseRepository", d, FALSE)

TodayPickupRepository_request(t) ==
    CanStart(t) /\ \E d \in DescriptorsRemote : Forward(t, "TodayPickupRepository", d, FALSE)

HTTPClient_make_request(t) ==
    CanStart(t) /\ \E d \in DescriptorsBase : Forward(t, "HTTPClient", d, FALSE)

\* The caller that has just got its answer makes the identical invocation
\* once more (same bridge, same descriptor).
ForwardAgain(t) ==
    /\ task[t].pc = "done"
    /\ task[t].entry = "bridge"
    /\ invocations < MaxInvocations
    /\ Forward(t, task[t].bridge, task[t].desc[1], TRUE)

\* Faulty variant: the response is kept in a slot of the shared bridge
\* object, where every invocation that is waiting picks it up.
Deliver_SharedSlot(tasks, t, resp) ==
    [u \in Tasks |->
        IF tasks[u].pc = "await" THEN OnResponse(tasks[u], resp) ELSE tasks[u]]

\* `response = await self.client.request(...)`: the response is bound to a
\* local variable of the invocation that awaited it
Deliver(tasks, t, resp) == [tasks EXCEPT ![t] = OnResponse(tasks[t], resp)]

UpstreamResponds(t) ==
    \E resp \in Responses :
        /\ task[t].pc = "await"
        /\ task' = Deliver(task, t, resp)
        /\ calls' = calls + (task'[t].nsent - task[t].nsent)
        /\ process' = ClientsOnAnswer(task[t].bridge, process)
        /\ UNCHANGED invocations

TransportFails(t) ==
    \E cause \in TransportCauses :
        /\ task[t].pc = "await"
        /\ task' = [task EXCEPT ![t] = OnRequestError(task[t], cause)]
        /\ calls' = calls + (task'[t].nsent - task[t].nsent)
        /\ process' = ClientsOnAnswer(task[t].bridge, process)
        /\ UNCHANGED invocations

BaseRepository_handle_response(t) ==
    /\ task[t].pc = "returned"
    /\ task[t].entry = "bridge"
    /\ task' = [task EXCEPT ![t] =
                  [@ EXCEPT !.pc = "done",
                            !.outcome = Some(HandleResponse(task[t].response[1])),
                            !.log = Append(@, "_handle_response")]]
    /\ UNCHANGED <<invocations, calls, process>>

\* The layer the task entered at has handed its answer to its caller.
Final(tk) == tk.pc = "replied" \/ (tk.pc = "done" /\ tk.entry = "bridge")

\* The caller drops the result: the task is free again.
Finish(t) ==
    /\ Final(task[t])
    /\ task' = [task EXCEPT ![t] = IdleTask]
    /\ UNCHANGED <<invocations, calls, process>>

Init ==
    /\ task = [t \in Tasks |-> IdleTask]
    /\ invocations = 0
    /\ calls = 0
    /\ process = ProcessStarted

Next ==
    \E t \in Tasks :
        \/ BaseRepository_request(t)
        \/ TodayPickupRepository_request(t)
        \/ HTTPClient_make_request(t)
        \/ ForwardAgain(t)
        \/ UpstreamResponds(t)
        \/ TransportFails(t)
        \/ BaseRepository_handle_response(t)
        \/ Finish(t)

Spec == Init /\ [][Next]_vars

(***************************************************************************)
(* The repositories built on BaseRepository._request: AgencyRepository and *)
(* MallRepository.  Every operation builds its headers from the token (and *)
(* the agency id), dumps its DTO without the None fields, makes one        *)
(* _request and returns response.text.                                     *)
(*   arg: what the operation takes besides the credentials: nothing, a     *)
(*   DTO (the body), a path segment, or the possible_delivery query.       *)
(***************************************************************************)
RepositoryOp(name, method, path, arg) ==
    [name |-> name, method |-> method, path |-> path, arg |-> arg]

AgencyRepositoryOps ==
    { RepositoryOp("check_auth", "POST", "/api/agency/auth", "none"),
      RepositoryOp("create_token", "POST", "/api/agency/auth/token", "dto"),
      RepositoryOp("update_delivery_ext_order_id", "PUT", "/api/agency/delivery", "dto"),
      RepositoryOp("return_delivery_flex", "PUT", "/api/agency/delivery/flex", "dto"),
      RepositoryOp("return_delivery_list_flex", "PUT", "/api/agency/delivery/list/flex", "dto"),
      RepositoryOp("find_delivery_list", "POST", "/api/agency/delivery/list/", "path"),
      RepositoryOp("update_delivery_state", "PUT", "/api/agency/delivery/state", "dto"),
      RepositoryOp("find_delivery_by_invoice_list", "POST", "/api/agency/delivery/", "path"),
      RepositoryOp("save_postal_codes", "POST", "/api/agency/postal/save", "dto") }

MallRepositoryOps ==
    { RepositoryOp("cancel_delivery", "POST", "/api/mall/cancelDelivery", "dto"),
      RepositoryOp("find_by_invoice", "GET", "/api/mall/delivery/", "path"),
      RepositoryOp("find_by_invoice_list", "GET", "/api/mall/deliveryList/", "path"),
      RepositoryOp("delivery_list_register", "POST", "/api/mall/deliveryListRegister", "dto"),
      RepositoryOp("delivery_register", "POST", "/api/mall/deliveryRegister", "dto"),
      RepositoryOp("possible_delivery", "GET", "/api/mall/possibleDelivery", "query"),
      RepositoryOp("return_delivery", "POST", "/api/mall/returnDelivery", "dto"),
      RepositoryOp("return_list_register", "POST", "/api/mall/returnListRegister", "dto"),
      RepositoryOp("return_register", "POST", "/api/mall/returnRegister", "dto") }

Tokens == {"Bearer t", ""}
AgencyIds == {"A1"}

\* a DTO: its fields, each None or set
DtoChoices ==
    { ("invoiceNumber" :> Some("INV1")) @@ ("status" :> None),
      ("invoiceNumber" :> None) @@ ("status" :> None) }

PathSegments == {"2024-12-31", "INV1,INV2"}

\* (address, postal_code, dawn_delivery) of possible_delivery
QueryChoices ==
    { [address |-> "1 Main St", postal_code |-> None, dawn_delivery |-> None],
      [address |-> "1 Main St", postal_code |-> Some("12345"), dawn_delivery |-> Some("")],
      [address |-> "1 Main St", postal_code |-> Some("12345"), dawn_delivery |-> Some("Y")] }

ArgChoices(arg) ==
    CASE arg = "none"  -> {None}
      [] arg = "dto"   -> {Some(d) : d \in DtoChoices}
      [] arg = "path"  -> {Some(seg) : seg \in PathSegments}
      [] arg = "query" -> {Some(q) : q \in QueryChoices}

\* dto.model_dump(exclude_none=True)
ModelDump(dto) ==
    [k \in {f \in DOMAIN dto : dto[f] # None} |-> dto[k][1]]

\* Faulty variant: `if postal_code is not None:`.
TruthyStr_NotNone(o) == o # None

\* `if postal_code:` -- false for None and for ""
TruthyStr(o) == o # None /\ o[1] # ""

\* params of MallRepository.possible_delivery
PossibleDeliveryParams(q) ==
    (IF TruthyStr(q.dawn_delivery) THEN "dawnDelivery" :> q.dawn_delivery[1]
     ELSE EmptyDict)
    @@ (IF TruthyStr(q.postal_code) THEN "postalCode" :> q.postal_code[1]
        ELSE EmptyDict)
    @@ ("address" :> q.address)

AgencyHeaders(token, agency_id) ==
    ("Authorization" :> token) @@ ("agencyId" :> agency_id)

MallHeaders(token) == "Authorization" :> token

\* the arguments an operation gives to self._request
RepositoryDescriptor(o, headers, v) ==
    Descriptor(o.method,
               IF o.arg = "path" THEN o.path \o v[1] ELSE o.path,
               IF o.arg = "dto" THEN Some(ModelDump(v[1])) ELSE None,
               IF o.arg = "query" THEN Some(PossibleDeliveryParams(v[1])) ELSE None,
               Some(headers))

\* The operation up to its `await self._request(...)`.
RepositoryCall(t, o, headers, creds, v) ==
    LET tk == [IdleTask EXCEPT !.op = o.name,
                               !.input = Some([creds |-> creds, arg |-> v])]
    IN /\ task' = [task EXCEPT ![t] =
                     Issue(tk, "repository", "BaseRepository",
                           RepositoryDescriptor(o, headers, v))]
       /\ invocations' = invocations + 1
       /\ calls' = calls + task'[t].nsent
       /\ process' = ClientsOnForward("BaseRepository", process)

AgencyRepository_operation(t) ==
    /\ CanStart(t)
    /\ \E o \in AgencyRepositoryOps, token \in Tokens, agency_id \in AgencyIds :
         \E v \in ArgChoices(o.arg) :
             RepositoryCall(t, o, AgencyHeaders(token, agency_id),
                            <<token, agency_id>>, v)

MallRepository_operation(t) ==
    /\ CanStart(t)
    /\ \E o \in MallRepositoryOps, token \in Tokens :
         \E v \in ArgChoices(o.arg) :
             RepositoryCall(t, o, MallHeaders(token), <<token>>, v)

\* Faulty variant: an error of _request is turned into an empty text.
RepositoryResult_Swallow(outcome) ==
    IF outcome.kind = "return"
    THEN Returned("str", None, outcome.text, None)
    ELSE Returned("str", None, Some(""), None)

\* `response = await self._request(...)` then `return response.text`: an
\* exception of _request leaves the operation as it is
RepositoryResult(outcome) ==
    IF outcome.kind = "return"
    THEN Returned("str", None, outcome.text, None)
    ELSE outcome

Repository_returns(t) ==
    /\ task[t].pc = "done"
    /\ task[t].entry = "repository"
    /\ task[t].bridge = "BaseRepository"
    /\ task' = [task EXCEPT ![t] =
                  [@ EXCEPT !.pc = "replied",
                            !.result = Some(RepositoryResult(task[t].outcome[1])),
                            !.log = Append(@, "repository returns")]]
    /\ UNCHANGED <<invocations, calls, process>>

(***************************************************************************)
(* health_check of the repositories built on HTTPClient (the abstract      *)
(* method of repositories/base.py; its concrete body is known from the     *)
(* repository tests): a GET of "/" through http_client.get, True for the   *)
(* 200 answer, False when the client raises an httpx.HTTPError.            *)
(***************************************************************************)
HealthCheckDescriptor == Descriptor("GET", "/", None, None, None)

AgencyRepository_health_check(t) ==
    /\ CanStart(t)
    /\ task' = [task EXCEPT ![t] =
                  Issue([IdleTask EXCEPT !.op = "health_check"], "repository",
                        "HTTPClient", HealthCheckDescriptor)]
    /\ invocations' = invocations + 1
    /\ calls' = calls + task'[t].nsent
    /\ process' = ClientsOnForward("HTTPClient", process)

\* what health_check hands back: True for a 200, False for an
\* httpx.HTTPError; the tests do not settle the other answers
HealthCheckResults(tk) ==
    IF tk.failure # None THEN {FALSE}
    ELSE IF tk.response[1].status_code = 200 THEN {TRUE}
    ELSE {TRUE, FALSE}

AgencyRepository_health_check_returns(t) ==
    /\ task[t].pc \in {"returned", "done"}
    /\ task[t].entry = "repository"
    /\ task[t].op = "health_check"
    /\ \E healthy \in HealthCheckResults(task[t]) :
         task' = [task EXCEPT ![t] =
                    [@ EXCEPT !.pc = "replied",
                              !.result = Some(Returned("bool", None, None,
                                                       Some(healthy))),
                              !.log = Append(@, "repository returns")]]
    /\ UNCHANGED <<invocations, calls, process>>

NextRepository ==
    \E t \in Tasks :
        \/ BaseRepository_request(t)
        \/ TodayPickupRepository_request(t)
        \/ HTTPClient_make_request(t)
        \/ BaseRepository_handle_response(t)
        \/ AgencyRepository_operation(t)
        \/ MallRepository_operation(t)
        \/ AgencyRepository_health_check(t)
        \/ UpstreamResponds(t)
        \/ TransportFails(t)
        \/ Repository_returns(t)
        \/ AgencyRepository_health_check_returns(t)
        \/ Finish(t)

SpecRepository == Init /\ [][NextRepository]_vars

(***************************************************************************)
(* The service layer: BaseService, MallService and AgencyService.  A       *)
(* service validates its arguments, calls one method of its repository     *)
(* and wraps what comes back in an envelope                                *)
(* {success, message, data, error_code}.                                   *)
(***************************************************************************)
MaxDeliveries == 2

\* AuthInfo(agency_id, auth_token), or None
ValidAuth == [agency_id |-> "A1", auth_token |-> "Bearer t"]

AuthChoices ==
    { None, Some(ValidAuth),
      Some([ValidAuth EXCEPT !.agency_id = ""]),
      Some([ValidAuth EXCEPT !.auth_token = "  "]) }

\* str.strip() on the strings used here: none has blanks around other text
Strip(s) == IF s \in {"", " ", "  "} THEN "" ELSE s

\* Faulty variant: only None and the empty string are refused.
ValidateAuthInfo_NoStrip(auth_info) ==
    ~(auth_info = None \/ auth_info[1].agency_id = "" \/ auth_info[1].auth_token = "")

\* BaseService._validate_auth_info
ValidateAuthInfo(auth_info) ==
    IF auth_info = None \/ auth_info[1].agency_id = "" \/ auth_info[1].auth_token = ""
    THEN FALSE
    ELSE IF Strip(auth_info[1].agency_id) = "" THEN FALSE
    ELSE IF Strip(auth_info[1].auth_token) = "" THEN FALSE
    ELSE TRUE

\* Faulty variant: the failure envelope carries the message as its data.
FailureResponse_WithData(message, error_code) ==
    [success |-> FALSE, message |-> message, error_code |-> Some(error_code),
     data |-> Some(message)]

\* the failure envelopes written out in the service methods
FailureResponse(message, error_code) ==
    [success |-> FALSE, message |-> message, error_code |-> Some(error_code),
     data |-> None]

\* Faulty variant: the envelope says nothing of the operation or the error.
HandleServiceError_Generic(error, operation) ==
    [success |-> FALSE, message |-> "Service error",
     error_code |-> Some("SERVICE_ERROR"), data |-> None]

\* BaseService._handle_service_error
HandleServiceError(error, operation) ==
    [success |-> FALSE, message |-> operation \o " failed: " \o error,
     error_code |-> Some("SERVICE_ERROR"), data |-> None]

\* Faulty variant: the envelope is built without the data.
CreateSuccessResponse_NoData(data, message) ==
    [success |-> TRUE, message |-> message, data |-> None, error_code |-> None]

\* BaseService._create_success_response
CreateSuccessResponse(data, message) ==
    [success |-> TRUE, message |-> message, data |-> Some(data),
     error_code |-> None]

InvalidAuthResponse ==
    FailureResponse("Invalid authentication information", "INVALID_AUTH")

(***************************************************************************)
(* Dates are strings read character by character.                          *)
(* Strptime(s): datetime.strptime(s, '%Y-%m-%d') returns (no ValueError).  *)
(* %Y is four digits, %m is 1[0-2]|0[1-9]|[1-9], %d is                     *)
(* 3[01]|[12]\d|0[1-9]|[1-9]| [1-9]; the whole string must match and the   *)
(* day must exist in the month.                                            *)
(***************************************************************************)
Chars(a, b, c, d, e, f, g, h, i, j) == <<a, b, c, d, e, f, g, h, i, j>>

DATE_PADDED == Chars("2", "0", "2", "4", "-", "1", "2", "-", "3", "1")
DATE_UNPADDED == <<"2", "0", "2", "4", "-", "1", "-", "5">>
DATE_SLASHES == Chars("2", "0", "2", "4", "/", "1", "2", "/", "3", "1")
DATE_FEB_30 == Chars("2", "0", "2", "4", "-", "0", "2", "-", "3", "0")
DATE_EMPTY == << >>

DateChoices ==
    {DATE_PADDED, DATE_UNPADDED, DATE_SLASHES, DATE_FEB_30, DATE_EMPTY}

Digit == {"0", "1", "2", "3", "4", "5", "6", "7", "8", "9"}

DigitValue(c) ==
    CASE c = "0" -> 0 [] c = "1" -> 1 [] c = "2" -> 2 [] c = "3" -> 3
      [] c = "4" -> 4 [] c = "5" -> 5 [] c = "6" -> 6 [] c = "7" -> 7
      [] c = "8" -> 8 [] c = "9" -> 9 [] OTHER -> 0

RECURSIVE IntOf(_)
IntOf(s) ==
    IF Len(s) = 0 THEN 0
    ELSE 10 * IntOf(SubSeq(s, 1, Len(s) - 1)) + DigitValue(s[Len(s)])

MatchesYear(s) == Len(s) = 4 /\ \A k \in 1..4 : s[k] \in Digit

MatchesMonth(s) ==
    \/ Len(s) = 2 /\ s[1] = "1" /\ s[2] \in {"0", "1", "2"}
    \/ Len(s) = 2 /\ s[1] = "0" /\ s[2] \in Digit \ {"0"}
    \/ Len(s) = 1 /\ s[1] \in Digit \ {"0"}

MatchesDay(s) ==
    \/ Len(s) = 2 /\ s[1] = "3" /\ s[2] \in {"0", "1"}
    \/ Len(s) = 2 /\ s[1] \in {"1", "2"} /\ s[2] \in Digit
    \/ Len(s) = 2 /\ s[1] = "0" /\ s[2] \in Digit \ {"0"}
    \/ Len(s) = 1 /\ s[1] \in Digit \ {"0"}
    \/ Len(s) = 2 /\ s[1] = " " /\ s[2] \in Digit \ {"0"}

IsLeap(y) == (y % 4 = 0 /\ y % 100 # 0) \/ y % 400 = 0

DaysInMonth(y, m) ==
    CASE m \in {4, 6, 9, 11} -> 30
      [] m = 2 -> IF IsLeap(y) THEN 29 ELSE 28
      [] OTHER -> 31

Strptime(s) ==
    LET dashes == {k \in 1..Len(s) : s[k] = "-"} IN
    /\ Cardinality(dashes) = 2
    /\ LET p == CHOOSE k \in dashes : \A l \in dashes : k <= l
           q == CHOOSE k \in dashes : \A l \in dashes : l <= k
           year == SubSeq(s, 1, p - 1)
           month == SubSeq(s, p + 1, q - 1)
           day == SubSeq(s, q + 1, Len(s))
       IN /\ MatchesYear(year)
          /\ MatchesMonth(month)
          /\ MatchesDay(day)
          /\ IntOf(year) >= 1
          /\ IntOf(SubSeq(day, IF day[1] = " " THEN 2 ELSE 1, Len(day)))
                <= DaysInMonth(IntOf(year), IntOf(month))

(***************************************************************************)
(* Requests of the mall service.                                           *)
(***************************************************************************)
ValidAddress ==
    [zipcode |-> "12345", address |-> "1 Main St", address_detail |-> "Apt 1",
     receiver_name |-> "Kim", receiver_phone |-> "010-1234-5678"]

ValidItem == [item_name |-> "Book", quantity |-> 1, price |-> 0]

ValidDelivery ==
    [mall_order_number |-> "ORDER1", delivery_date |-> DATE_PADDED,
     address |-> Some(ValidAddress), items |-> <<ValidItem>>]

DeliveryChoices ==
    { ValidDelivery,
      [ValidDelivery EXCEPT !.mall_order_number = ""],
      [ValidDelivery EXCEPT !.delivery_date = DATE_EMPTY],
      [ValidDelivery EXCEPT !.delivery_date = DATE_SLASHES],
      [ValidDelivery EXCEPT !.address = None],
      [ValidDelivery EXCEPT !.items = << >>],
      [ValidDelivery EXCEPT !.address = Some([ValidAddress EXCEPT !.zipcode = ""])],
      [ValidDelivery EXCEPT
          !.address = Some([ValidAddress EXCEPT !.address_detail = ""])],
      [ValidDelivery EXCEPT
          !.items = <<ValidItem, [ValidItem EXCEPT !.quantity = 0]>>],
      [ValidDelivery EXCEPT !.items = <<[ValidItem EXCEPT !.price = -1]>>],
      [ValidDelivery EXCEPT !.items = <<[ValidItem EXCEPT !.item_name = ""]>>] }

ValidReturn ==
    [original_invoice_number |-> "INV1", return_reason |-> "damaged",
     return_address |-> Some(ValidAddress), return_items |-> <<ValidItem>>]

ReturnChoices ==
    { ValidReturn,
      [ValidReturn EXCEPT !.original_invoice_number = ""],
      [ValidReturn EXCEPT !.return_reason = ""],
      [ValidReturn EXCEPT !.return_address = None],
      [ValidReturn EXCEPT !.return_items = << >>],
      [ValidReturn EXCEPT
          !.return_address = Some([ValidAddress EXCEPT !.receiver_phone = ""])],
      [ValidReturn EXCEPT
          !.return_address = Some([ValidAddress EXCEPT !.address_detail = ""])],
      [ValidReturn EXCEPT !.return_items = <<[ValidItem EXCEPT !.quantity = 0]>>] }

DeliveryLists ==
    UNION { [1..n -> DeliveryChoices] : n \in 0..MaxDeliveries }

\* `if len(request.deliveries) > 100`
MAX_DELIVERIES_PER_REQUEST == 100

ValidationResult(is_valid, message) ==
    [is_valid |-> is_valid, message |-> message]

\* `for item in request.items: if not item.item_name or item.quantity <= 0
\* or item.price < 0`
InvalidDeliveryItem(item) ==
    item.item_name = "" \/ item.quantity <= 0 \/ item.price < 0

IncompleteAddress(address) ==
    \/ address.zipcode = ""
    \/ address.address = ""
    \/ address.receiver_name = ""
    \/ address.receiver_phone = ""

\* the address examined before the item list
ValidateDeliveryRequest_AddressFirst(request) ==
    IF request.mall_order_number = ""
    THEN ValidationResult(FALSE, "Mall order number is required")
    ELSE IF request.delivery_date = DATE_EMPTY
    THEN ValidationResult(FALSE, "Delivery date is required")
    ELSE IF request.address = None
    THEN ValidationResult(FALSE, "Address information is required")
    ELSE IF IncompleteAddress(request.address[1])
    THEN ValidationResult(FALSE, "Complete address information is required")
    ELSE IF Len(request.items) = 0
    THEN ValidationResult(FALSE, "At least one item is required")
    ELSE IF \E k \in 1..Len(request.items) : InvalidDeliveryItem(request.items[k])
    THEN ValidationResult(FALSE, "Invalid item information")
    ELSE ValidationResult(TRUE, "Valid request")

\* MallService._validate_delivery_request
ValidateDeliveryRequest(request) ==
    IF request.mall_order_number = ""
    THEN ValidationResult(FALSE, "Mall order number is required")
    ELSE IF request.delivery_date = DATE_EMPTY
    THEN ValidationResult(FALSE, "Delivery date is required")
    ELSE IF request.address = None
    THEN ValidationResult(FALSE, "Address information is required")
    ELSE IF Len(request.items) = 0
    THEN ValidationResult(FALSE, "At least one item is required")
    ELSE IF IncompleteAddress(request.address[1])
    THEN ValidationResult(FALSE, "Complete address information is required")
    ELSE IF \E k \in 1..Len(request.items) : InvalidDeliveryItem(request.items[k])
    THEN ValidationResult(FALSE, "Invalid item information")
    ELSE ValidationResult(TRUE, "Valid request")

\* MallService._validate_return_request
ValidateReturnRequest(request) ==
    IF request.original_invoice_number = ""
    THEN ValidationResult(FALSE, "Original invoice number is required")
    ELSE IF request.return_reason = ""
    THEN ValidationResult(FALSE, "Return reason is required")
    ELSE IF request.return_address = None
    THEN ValidationResult(FALSE, "Return address is required")
    ELSE IF Len(request.return_items) = 0
    THEN ValidationResult(FALSE, "At least one return item is required")
    ELSE IF IncompleteAddress(request.return_address[1])
    THEN ValidationResult(FALSE, "Complete return address information is required")
    ELSE IF \E k \in 1..Len(request.return_items) :
                \/ request.return_items[k].item_name = ""
                \/ request.return_items[k].quantity <= 0
    THEN ValidationResult(FALSE, "Invalid return item information")
    ELSE ValidationResult(TRUE, "Valid return request")

(***************************************************************************)
(* What a service method does before its repository call: it rejects the   *)
(* arguments with a failure envelope, or goes on to call one repository    *)
(* method with the arguments given here.                                   *)
(***************************************************************************)
Reject(envelope) == [ok |-> FALSE, envelope |-> envelope]

CallRepository(method, args) ==
    [ok |-> TRUE, call |-> [method |-> method, args |-> args]]

\* MallService.register_single_delivery
RegisterSingleDelivery(request, auth_info) ==
    IF ~ValidateAuthInfo(auth_info) THEN Reject(InvalidAuthResponse)
    ELSE IF ~ValidateDeliveryRequest(request).is_valid
    THEN Reject(FailureResponse(ValidateDeliveryRequest(request).message,
                                "INVALID_REQUEST"))
    ELSE CallRepository("register_single_delivery", <<request, auth_info[1]>>)

\* the index (from 0) of the first delivery that fails validation
FirstInvalidIndex(deliveries) ==
    CHOOSE k \in 0..(Len(deliveries) - 1) :
        /\ ~ValidateDeliveryRequest(deliveries[k + 1]).is_valid
        /\ \A l \in 0..(k - 1) : ValidateDeliveryRequest(deliveries[l + 1]).is_valid

\* Faulty variant: only the first delivery of the list is validated.
RegisterMultipleDeliveries_FirstOnly(deliveries, auth_info) ==
    IF ~ValidateAuthInfo(auth_info) THEN Reject(InvalidAuthResponse)
    ELSE IF Len(deliveries) = 0
    THEN Reject(FailureResponse("At least one delivery is required",
                                "EMPTY_DELIVERY_LIST"))
    ELSE IF Len(deliveries) > MAX_DELIVERIES_PER_REQUEST
    THEN Reject(FailureResponse("Maximum 100 deliveries allowed per request",
                                "TOO_MANY_DELIVERIES"))
    ELSE IF ~ValidateDeliveryRequest(deliveries[1]).is_valid
    THEN Reject(FailureResponse(
                  "Invalid delivery at index 0: "
                      \o ValidateDeliveryRequest(deliveries[1]).message,
                  "INVALID_REQUEST"))
    ELSE CallRepository("register_multiple_deliveries", <<deliveries, auth_info[1]>>)

\* MallService.register_multiple_deliveries
RegisterMultipleDeliveries(deliveries, auth_info) ==
    IF ~ValidateAuthInfo(auth_info) THEN Reject(InvalidAuthResponse)
    ELSE IF Len(deliveries) = 0
    THEN Reject(FailureResponse("At least one delivery is required",
                                "EMPTY_DELIVERY_LIST"))
    ELSE IF Len(deliveries) > MAX_DELIVERIES_PER_REQUEST
    THEN Reject(FailureResponse("Maximum 100 deliveries allowed per request",
                                "TOO_MANY_DELIVERIES"))
    ELSE IF \E k \in 1..Len(deliveries) : ~ValidateDeliveryRequest(deliveries[k]).is_valid
    THEN LET idx == FirstInvalidIndex(deliveries) IN
         Reject(FailureResponse(
                  "Invalid delivery at index " \o ToString(idx) \o ": "
                      \o ValidateDeliveryRequest(deliveries[idx + 1]).message,
                  "INVALID_REQUEST"))
    ELSE CallRepository("register_multiple_deliveries", <<deliveries, auth_info[1]>>)

\* MallService.track_delivery_status
TrackDeliveryStatus(invoice_number, auth_info) ==
    IF ~ValidateAuthInfo(auth_info) THEN Reject(InvalidAuthResponse)
    ELSE IF invoice_number = "" \/ Strip(invoice_number) = ""
    THEN Reject(FailureResponse("Invoice number is required", "INVALID_INPUT"))
    ELSE CallRepository("track_delivery", <<invoice_number, auth_info[1]>>)

\* MallService.check_delivery_availability
CheckDeliveryAvailability(zipcode, delivery_date, auth_info) ==
    IF ~ValidateAuthInfo(auth_info) THEN Reject(InvalidAuthResponse)
    ELSE IF zipcode = "" \/ delivery_date = DATE_EMPTY
    THEN Reject(FailureResponse("Zipcode and delivery date are required",
                                "INVALID_INPUT"))
    ELSE IF ~Strptime(delivery_date)
    THEN Reject(FailureResponse("Invalid delivery date format. Use YYYY-MM-DD",
                                "INVALID_DATE_FORMAT"))
    ELSE CallRepository("check_delivery_availability",
                        <<[zipcode |-> zipcode, delivery_date |-> delivery_date],
                          auth_info[1]>>)

\* MallService.cancel_delivery
CancelDelivery(invoice_number, cancel_reason, auth_info) ==
    IF ~ValidateAuthInfo(auth_info) THEN Reject(InvalidAuthResponse)
    ELSE IF invoice_number = "" \/ cancel_reason = ""
    THEN Reject(FailureResponse("Invoice number and cancel reason are required",
                                "INVALID_INPUT"))
    ELSE CallRepository("cancel_delivery",
                        <<[invoice_number |-> invoice_number,
                           cancel_reason |-> cancel_reason], auth_info[1]>>)

\* MallService.request_return_delivery
RequestReturnDelivery(request, auth_info) ==
    IF ~ValidateAuthInfo(auth_info) THEN Reject(InvalidAuthResponse)
    ELSE IF ~ValidateReturnRequest(request).is_valid
    THEN Reject(FailureResponse(ValidateReturnRequest(request).message,
                                "INVALID_REQUEST"))
    ELSE CallRepository("request_return_delivery", <<request, auth_info[1]>>)

\* AgencyService.generate_authentication_token
GenerateAuthenticationToken(agency_id, api_key) ==
    IF agency_id = "" \/ api_key = ""
    THEN Reject(FailureResponse("Agency ID and API key are required",
                                "INVALID_INPUT"))
    ELSE CallRepository("generate_token",
                        <<[agency_id |-> agency_id, api_key |-> api_key]>>)

\* AgencyService.validate_authentication_token
ValidateAuthenticationToken(token, auth_info) ==
    IF ~ValidateAuthInfo(auth_info) THEN Reject(InvalidAuthResponse)
    ELSE IF token = ""
    THEN Reject(FailureResponse("Token is required", "INVALID_INPUT"))
    ELSE CallRepository("validate_token", <<[token |-> token], auth_info[1]>>)

\* AgencyService.assign_delivery_to_driver
AssignDeliveryToDriver(invoice_number, auth_info, driver_id) ==
    IF ~ValidateAuthInfo(auth_info) THEN Reject(InvalidAuthResponse)
    ELSE IF invoice_number = ""
    THEN Reject(FailureResponse("Invoice number is required", "INVALID_INPUT"))
    ELSE CallRepository("assign_delivery",
                        <<[invoice_number |-> invoice_number,
                           driver_id |-> driver_id, driver_name |-> None,
                           driver_phone |-> None,
                           estimated_delivery_time |-> None], auth_info[1]>>)

\* AgencyService.get_delivery_information_list
GetDeliveryInformationList(delivery_date, auth_info, status, page, size) ==
    IF ~ValidateAuthInfo(auth_info) THEN Reject(InvalidAuthResponse)
    ELSE IF delivery_date = DATE_EMPTY
    THEN Reject(FailureResponse("Delivery date is required", "INVALID_INPUT"))
    ELSE IF ~Strptime(delivery_date)
    THEN Reject(FailureResponse("Invalid delivery date format. Use YYYY-MM-DD",
                                "INVALID_DATE_FORMAT"))
    ELSE IF page < 1 \/ size < 1
    THEN Reject(FailureResponse("Page and size must be positive integers",
                                "INVALID_PAGINATION"))
    ELSE CallRepository("get_delivery_list",
                        <<delivery_date, auth_info[1], status, page, size>>)

\* AgencyService.get_postal_code_information
GetPostalCodeInformation(zipcode, auth_info) ==
    IF ~ValidateAuthInfo(auth_info) THEN Reject(InvalidAuthResponse)
    ELSE IF zipcode = "" \/ Strip(zipcode) = ""
    THEN Reject(FailureResponse("Zipcode is required", "INVALID_INPUT"))
    ELSE CallRepository("get_postal_code_info", <<zipcode, auth_info[1]>>)

\* MallService.health_check / AgencyService.health_check: no arguments
HealthCheck == CallRepository("health_check", << >>)

\* per service method: the message of its success envelope and the
\* operation name given to _handle_service_error
ServiceMessages ==
    [ MallService_health_check |->
          <<"Mall service health check completed", "Mall service health check">>,
      MallService_register_single_delivery |->
          <<"Single delivery registered successfully", "Single delivery registration">>,
      MallService_register_multiple_deliveries |->
          <<"Multiple deliveries registered successfully",
            "Multiple delivery registration">>,
      MallService_track_delivery_status |->
          <<"Delivery tracking completed successfully", "Delivery tracking">>,
      MallService_check_delivery_availability |->
          <<"Delivery availability checked successfully",
            "Delivery availability check">>,
      MallService_cancel_delivery |->
          <<"Delivery cancelled successfully", "Delivery cancellation">>,
      MallService_request_return_delivery |->
          <<"Return delivery requested successfully", "Return delivery request">>,
      AgencyService_health_check |->
          <<"Agency service health check completed", "Agency service health check">>,
      AgencyService_generate_authentication_token |->
          <<"Authentication token generated successfully", "Token generation">>,
      AgencyService_validate_authentication_token |->
          <<"Token validation completed", "Token validation">>,
      AgencyService_assign_delivery_to_driver |->
          <<"Delivery assigned successfully", "Delivery assignment">>,
      AgencyService_get_delivery_information_list |->
          <<"Delivery information retrieved successfully",
            "Delivery information retrieval">>,
      AgencyService_get_postal_code_information |->
          <<"Postal code information retrieved successfully",
            "Postal code information retrieval">> ]

HealthCheckOps == {"MallService_health_check", "AgencyService_health_check"}

\* what the repository method may hand back, and the text of what it may
\* raise
RepositoryData == { "invoice_number" :> "INV1" }
RepositoryErrors == { "API Error: {'error': 'invalid token'}", "Connection failed" }

\* those of them that say the outbound call could not complete
TransportErrors == { "Connection failed" }

\* The service method's answer reaches its caller: the caller of the
\* service, or the endpoint that awaits the service.
Served(tk, envelope, step) ==
    [tk EXCEPT !.pc = IF tk.entry = "endpoint" THEN "served" ELSE "replied",
               !.envelope = Some(envelope),
               !.result = IF tk.entry = "endpoint" THEN None ELSE Some(envelope),
               !.log = IF step = "" THEN @ ELSE Append(@, step)]

\* A service method runs up to its `await self.repository...` or to the
\* return of a failure envelope.
ServiceCall(tk, op, input, v) ==
    LET started == [tk EXCEPT !.op = op, !.input = Some(input),
                              !.log = IF op \in HealthCheckOps THEN @
                                      ELSE Append(@, "service validation")]
    IN IF v.ok
       THEN [started EXCEPT !.pc = "repo", !.repoCalls = @ + 1,
                            !.repoArgs = Some(v.call),
                            !.log = Append(@, "repository call")]
       ELSE Served(started, v.envelope, "")

ServiceStart(t, op, input, v) ==
    /\ task' = [task EXCEPT ![t] =
                  ServiceCall([IdleTask EXCEPT !.entry = "service"], op, input, v)]
    /\ UNCHANGED <<invocations, calls, process>>

(***************************************************************************)
(* Arguments the callers of the services supply.                           *)
(***************************************************************************)
Zipcodes == {"12345", "", " "}
InvoiceNumbers == {"INV1", "", " "}
CancelReasons == {"changed mind", "", " "}
AgencyIdArgs == {"A1", ""}
ApiKeys == {"key", ""}
TokenArgs == {"tok", ""}
Statuses == {None, Some("pending")}
DriverIds == {None, Some("D1")}
Pages == {0, 1}
Sizes == {0, 10}

(***************************************************************************)
(* Actions of the services (called directly, as the service tests do).     *)
(***************************************************************************)
MallService_health_check(t) ==
    /\ CanStart(t)
    /\ ServiceStart(t, "MallService_health_check", << >>, HealthCheck)

MallService_register_single_delivery(t) ==
    /\ CanStart(t)
    /\ \E request \in DeliveryChoices, auth_info \in AuthChoices :
           ServiceStart(t, "MallService_register_single_delivery",
                        <<request, auth_info>>,
                        RegisterSingleDelivery(request, auth_info))

MallService_register_multiple_deliveries(t) ==
    /\ CanStart(t)
    /\ \E deliveries \in DeliveryLists, auth_info \in AuthChoices :
           ServiceStart(t, "MallService_register_multiple_deliveries",
                        <<deliveries, auth_info>>,
                        RegisterMultipleDeliveries(deliveries, auth_info))

MallService_track_delivery_status(t) ==
    /\ CanStart(t)
    /\ \E invoice_number \in InvoiceNumbers, auth_info \in AuthChoices :
           ServiceStart(t, "MallService_track_delivery_status",
                        <<invoice_number, auth_info>>,
                        TrackDeliveryStatus(invoice_number, auth_info))

MallService_check_delivery_availability(t) ==
    /\ CanStart(t)
    /\ \E zipcode \in Zipcodes, delivery_date \in DateChoices, auth_info \in AuthChoices :
           ServiceStart(t, "MallService_check_delivery_availability",
                        <<zipcode, delivery_date, auth_info>>,
                        CheckDeliveryAvailability(zipcode, delivery_date, auth_info))

MallService_cancel_delivery(t) ==
    /\ CanStart(t)
    /\ \E invoice_number \in InvoiceNumbers, cancel_reason \in CancelReasons,
          auth_info \in AuthChoices :
           ServiceStart(t, "MallService_cancel_delivery",
                        <<invoice_number, cancel_reason, auth_info>>,
                        CancelDelivery(invoice_number, cancel_reason, auth_info))

MallService_request_return_delivery(t) ==
    /\ CanStart(t)
    /\ \E request \in ReturnChoices, auth_info \in AuthChoices :
           ServiceStart(t, "MallService_request_return_delivery",
                        <<request, auth_info>>,
                        RequestReturnDelivery(request, auth_info))

AgencyService_health_check(t) ==
    /\ CanStart(t)
    /\ ServiceStart(t, "AgencyService_health_check", << >>, HealthCheck)

AgencyService_generate_authentication_token(t) ==
    /\ CanStart(t)
    /\ \E agency_id \in AgencyIdArgs, api_key \in ApiKeys :
           ServiceStart(t, "AgencyService_generate_authentication_token",
                        <<agency_id, api_key>>,
                        GenerateAuthenticationToken(agency_id, api_key))

AgencyService_validate_authentication_token(t) ==
    /\ CanStart(t)
    /\ \E token \in TokenArgs, auth_info \in AuthChoices :
           ServiceStart(t, "AgencyService_validate_authentication_token",
                        <<token, auth_info>>,
                        ValidateAuthenticationToken(token, auth_info))

AgencyService_assign_delivery_to_driver(t) ==
    /\ CanStart(t)
    /\ \E invoice_number \in InvoiceNumbers, auth_info \in AuthChoices,
          driver_id \in DriverIds :
           ServiceStart(t, "AgencyService_assign_delivery_to_driver",
                        <<invoice_number, auth_info, driver_id>>,
                        AssignDeliveryToDriver(invoice_number, auth_info, driver_id))

AgencyService_get_delivery_information_list(t) ==
    /\ CanStart(t)
    /\ \E delivery_date \in DateChoices, auth_info \in AuthChoices,
          status \in Statuses, page \in Pages, size \in Sizes :
           ServiceStart(t, "AgencyService_get_delivery_information_list",
                        <<delivery_date, auth_info, status, page, size>>,
                        GetDeliveryInformationList(delivery_date, auth_info, status,
                                                   page, size))

AgencyService_get_postal_code_information(t) ==
    /\ CanStart(t)
    /\ \E zipcode \in Zipcodes, auth_info \in AuthChoices :
           ServiceStart(t, "AgencyService_get_postal_code_information",
                        <<zipcode, auth_info>>,
                        GetPostalCodeInformation(zipcode, auth_info))

\* `response_data = await self.repository...` returns: the success envelope
RepositoryMethodReturns(t) ==
    /\ task[t].pc = "repo"
    /\ \E data \in (IF task[t].op \in HealthCheckOps
                    THEN {"is_healthy" :> TRUE, "is_healthy" :> FALSE}
                    ELSE RepositoryData) :
         task' = [task EXCEPT ![t] =
                    Served([task[t] EXCEPT
                               !.outcome = Some(Returned("dict", None, None, Some(data)))],
                           CreateSuccessResponse(data, ServiceMessages[task[t].op][1]),
                           "repository returns")]
    /\ UNCHANGED <<invocations, calls, process>>

\* `await self.repository...` raises: `except Exception as e` turns it into
\* the SERVICE_ERROR envelope
RepositoryMethodRaises(t) ==
    /\ task[t].pc = "repo"
    /\ \E error \in RepositoryErrors :
         task' = [task EXCEPT ![t] =
                    Served([task[t] EXCEPT !.failure = Some(error)],
                           HandleServiceError(error, ServiceMessages[task[t].op][2]),
                           "repository raises")]
    /\ UNCHANGED <<invocations, calls, process>>

NextService ==
    \E t \in Tasks :
        \/ MallService_health_check(t)
        \/ MallService_register_single_delivery(t)
        \/ MallService_register_multiple_deliveries(t)
        \/ MallService_track_delivery_status(t)
        \/ MallService_check_delivery_availability(t)
        \/ MallService_cancel_delivery(t)
        \/ MallService_request_return_delivery(t)
        \/ AgencyService_health_check(t)
        \/ AgencyService_generate_authentication_token(t)
        \/ AgencyService_validate_authentication_token(t)
        \/ AgencyService_assign_delivery_to_driver(t)
        \/ AgencyService_get_delivery_information_list(t)
        \/ AgencyService_get_postal_code_information(t)
        \/ RepositoryMethodReturns(t)
        \/ RepositoryMethodRaises(t)
        \/ Finish(t)

SpecService == Init /\ [][NextService]_vars

(***************************************************************************)
(* The endpoints of mall_controller.  FastAPI builds the handler's         *)
(* parameters from the inbound request first: a missing required header or *)
(* query parameter, or a body its schema rejects, is answered 422 and the  *)
(* handler does not run.                                                   *)
(***************************************************************************)
AuthorizationHeaders == {None, Some("Bearer t"), Some("")}
AgencyIdHeaders == {None, Some("A1")}
StatusQueries == {None, Some("DELIVERED")}
CancelReasonQueries == {None, Some("changed mind"), Some("")}
ZipcodeQueries == {None, Some("12345"), Some("")}
DeliveryDateQueries == {None} \cup {Some(date) : date \in DateChoices}
InvoicePaths == {"INV1", " "}

\* get_auth_info: both headers are required
HeadersPresent(authorization, agency_id) ==
    authorization # None /\ agency_id # None

get_auth_info(authorization, agency_id) ==
    Some([agency_id |-> agency_id[1], auth_token |-> authorization[1]])

\* DeliveryItemSchema: quantity ge=1, price ge=0
DeliveryItemSchema_validates(item) == item.quantity >= 1 /\ item.price >= 0

\* SingleDeliveryRegisterRequest: every field present, delivery_date parsed
\* by validate_delivery_date
SingleDeliveryRegisterRequest_validates(request) ==
    /\ request.address # None
    /\ Strptime(request.delivery_date)
    /\ \A k \in 1..Len(request.items) : DeliveryItemSchema_validates(request.items[k])

\* Faulty variant: deliveries has no max_length.
MultipleDeliveryRegisterRequest_NoMaxLength(deliveries) ==
    \A k \in 1..Len(deliveries) :
        SingleDeliveryRegisterRequest_validates(deliveries[k])

\* MultipleDeliveryRegisterRequest: deliveries has max_length=100
MultipleDeliveryRegisterRequest_validates(deliveries) ==
    /\ Len(deliveries) <= 100
    /\ \A k \in 1..Len(deliveries) :
           SingleDeliveryRegisterRequest_validates(deliveries[k])

\* DeliveryReturnRequest
DeliveryReturnRequest_validates(request) ==
    /\ request.return_address # None
    /\ \A k \in 1..Len(request.return_items) :
           DeliveryItemSchema_validates(request.return_items[k])

RequestValidationError == [status |-> 422, body |-> "Unprocessable Entity"]

\* The handler starts for one inbound request: rejected with 422, or its
\* service method runs up to the repository call or to a failure envelope.
EndpointStart(t, route, valid, op, input, v) ==
    LET tk == [IdleTask EXCEPT !.entry = "endpoint", !.route = route,
                               !.log = <<"request validation">>]
    IN /\ task' = [task EXCEPT ![t] =
                     IF valid THEN ServiceCall(tk, op, input, v)
                     ELSE [tk EXCEPT !.pc = "replied",
                                     !.result = Some(RequestValidationError)]]
       /\ UNCHANGED <<invocations, calls, process>>

\* GET /health: no parameters
MallController_health_check(t) ==
    /\ CanStart(t)
    /\ task' = [task EXCEPT ![t] =
                  ServiceCall([IdleTask EXCEPT !.entry = "endpoint",
                                               !.route = "health_check"],
                              "MallService_health_check", << >>, HealthCheck)]
    /\ UNCHANGED <<invocations, calls, process>>

\* POST /deliveryRegister
MallController_register_single_delivery(t) ==
    /\ CanStart(t)
    /\ \E request \in DeliveryChoices, authorization \in AuthorizationHeaders,
          agency_id \in AgencyIdHeaders :
         LET valid == /\ HeadersPresent(authorization, agency_id)
                      /\ SingleDeliveryRegisterRequest_validates(request)
             auth_info == get_auth_info(authorization, agency_id)
         IN EndpointStart(t, "register_single_delivery", valid,
                          "MallService_register_single_delivery",
                          <<request, auth_info>>,
                          RegisterSingleDelivery(request, auth_info))

\* POST /deliveryListRegister
MallController_register_multiple_deliveries(t) ==
    /\ CanStart(t)
    /\ \E deliveries \in DeliveryLists, authorization \in AuthorizationHeaders,
          agency_id \in AgencyIdHeaders :
         LET valid == /\ HeadersPresent(authorization, agency_id)
                      /\ MultipleDeliveryRegisterRequest_validates(deliveries)
             auth_info == get_auth_info(authorization, agency_id)
         IN EndpointStart(t, "register_multiple_deliveries", valid,
                          "MallService_register_multiple_deliveries",
                          <<deliveries, auth_info>>,
                          RegisterMultipleDeliveries(deliveries, auth_info))

\* GET /delivery/{invoice_number}
MallController_track_delivery(t) ==
    /\ CanStart(t)
    /\ \E invoice_number \in InvoicePaths, authorization \in AuthorizationHeaders,
          agency_id \in AgencyIdHeaders :
         LET auth_info == get_auth_info(authorization, agency_id)
         IN EndpointStart(t, "track_delivery",
                          HeadersPresent(authorization, agency_id),
                          "MallService_track_delivery_status",
                          <<invoice_number, auth_info>>,
                          TrackDeliveryStatus(invoice_number, auth_info))

\* GET /possibleDelivery?zipcode=&deliveryDate=
MallController_check_delivery_availability(t) ==
    /\ CanStart(t)
    /\ \E zipcode \in ZipcodeQueries, delivery_date \in DeliveryDateQueries,
          authorization \in AuthorizationHeaders, agency_id \in AgencyIdHeaders :
         LET valid == /\ HeadersPresent(authorization, agency_id)
                      /\ zipcode # None
                      /\ delivery_date # None
             auth_info == get_auth_info(authorization, agency_id)
         IN EndpointStart(t, "check_delivery_availability", valid,
                          "MallService_check_delivery_availability",
                          <<zipcode[1], delivery_date[1], auth_info>>,
                          CheckDeliveryAvailability(zipcode[1], delivery_date[1],
                                                    auth_info))

\* POST /delivery/{invoice_number}/cancel?cancel_reason=
MallController_cancel_delivery(t) ==
    /\ CanStart(t)
    /\ \E invoice_number \in InvoicePaths, cancel_reason \in CancelReasonQueries,
          authorization \in AuthorizationHeaders, agency_id \in AgencyIdHeaders :
         LET valid == /\ HeadersPresent(authorization, agency_id)
                      /\ cancel_reason # None
             auth_info == get_auth_info(authorization, agency_id)
         IN EndpointStart(t, "cancel_delivery", valid,
                          "MallService_cancel_delivery",
                          <<invoice_number, cancel_reason[1], auth_info>>,
                          CancelDelivery(invoice_number, cancel_reason[1], auth_info))

\* POST /delivery/return
MallController_request_return_delivery(t) ==
    /\ CanStart(t)
    /\ \E request \in ReturnChoices, authorization \in AuthorizationHeaders,
          agency_id \in AgencyIdHeaders :
         LET valid == /\ HeadersPresent(authorization, agency_id)
                      /\ DeliveryReturnRequest_validates(request)
             auth_info == get_auth_info(authorization, agency_id)
         IN EndpointStart(t, "request_return_delivery", valid,
                          "MallService_request_return_delivery",
                          <<request, auth_info>>,
                          RequestReturnDelivery(request, auth_info))

\* GET /delivery/{invoice_number}/history: the tracking method again
MallController_get_delivery_history(t) ==
    /\ CanStart(t)
    /\ \E invoice_number \in InvoicePaths, authorization \in AuthorizationHeaders,
          agency_id \in AgencyIdHeaders :
         LET auth_info == get_auth_info(authorization, agency_id)
         IN EndpointStart(t, "get_delivery_history",
                          HeadersPresent(authorization, agency_id),
                          "MallService_track_delivery_status",
                          <<invoice_number, auth_info>>,
                          TrackDeliveryStatus(invoice_number, auth_info))

\* PUT /delivery/{invoice_number}/status?status= : the handler builds its
\* result itself and returns it; no service method is called
MallController_update_delivery_status(t) ==
    /\ CanStart(t)
    /\ \E invoice_number \in InvoicePaths, status \in StatusQueries,
          authorization \in AuthorizationHeaders, agency_id \in AgencyIdHeaders :
         LET tk == [IdleTask EXCEPT !.entry = "endpoint",
                                    !.route = "update_delivery_status",
                                    !.input = Some(<<invoice_number, status>>),
                                    !.log = <<"request validation">>,
                                    !.pc = "replied"]
         IN task' = [task EXCEPT ![t] =
               IF HeadersPresent(authorization, agency_id) /\ status # None
               THEN [tk EXCEPT !.result = Some(
                        [status |-> 200,
                         body |-> [success |-> TRUE,
                                   message |-> "Status update feature not implemented yet",
                                   data |-> [invoice_number |-> invoice_number,
                                             new_status |-> status[1]]]])]
               ELSE [tk EXCEPT !.result = Some(RequestValidationError)]]
    /\ UNCHANGED <<invocations, calls, process>>

\* the detail of the HTTPException(500) each handler raises in its
\* `except Exception` clause
FailureDetails ==
    [ health_check |-> "Service health check failed",
      register_single_delivery |-> "Single delivery registration failed",
      register_multiple_deliveries |-> "Multiple delivery registration failed",
      track_delivery |-> "Delivery tracking failed",
      check_delivery_availability |-> "Delivery availability check failed",
      cancel_delivery |-> "Delivery cancellation failed",
      request_return_delivery |-> "Return delivery request failed",
      get_delivery_history |-> "Delivery history retrieval failed",
      update_delivery_status |-> "Delivery status update failed" ]

\* the handlers that await a method of mall_service
ServiceRoutes == DOMAIN FailureDetails \ {"update_delivery_status"}

\* Faulty variant: no `except HTTPException: raise` before `except Exception`.
ExceptClauses_NoReraise(route) == <<"Exception">>

\* the except clauses of a handler's try statement, in order
ExceptClauses(route) ==
    IF route \in {"health_check", "update_delivery_status"}
    THEN <<"Exception">>
    ELSE <<"HTTPException", "Exception">>

\* what is raised inside the try statement once the service has answered:
\* nothing, the HTTPException(400) of a failure envelope (health_check has
\* no such test), or the exception the service call raised
RaisedInTry(tk) ==
    IF tk.envelope = None
    THEN Some([type |-> "Exception", status |-> 0, detail |-> tk.failure[1]])
    ELSE IF tk.route # "health_check" /\ ~tk.envelope[1].success
    THEN Some([type |-> "HTTPException", status |-> 400,
               detail |-> [message |-> tk.envelope[1].message,
                           error_code |-> tk.envelope[1].error_code]])
    ELSE None

\* the first except clause that matches: HTTPException is an Exception
HandledBy(clauses, raised) ==
    IF clauses[1] = "HTTPException" /\ raised.type # "HTTPException"
    THEN clauses[2]
    ELSE clauses[1]

\* the answer of the handler: `except HTTPException: raise` lets the 400
\* through, `except Exception` raises HTTPException(500) with a fixed detail
HandlerReply(tk) ==
    LET raised == RaisedInTry(tk) IN
    IF raised = None
    THEN [status |-> 200, body |-> tk.envelope[1]]
    ELSE IF HandledBy(ExceptClauses(tk.route), raised[1]) = "HTTPException"
    THEN [status |-> raised[1].status, body |-> [detail |-> raised[1].detail]]
    ELSE [status |-> 500, body |-> [detail |-> FailureDetails[tk.route]]]

\* `result = await mall_service...` has returned or raised: the handler
\* answers
Endpoint_returns(t) ==
    /\ task[t].pc = "served"
    /\ task' = [task EXCEPT ![t].pc = "replied",
                            ![t].result = Some(HandlerReply(task[t]))]
    /\ UNCHANGED <<invocations, calls, process>>

NextEndpoint ==
    \E t \in Tasks :
        \/ MallController_health_check(t)
        \/ MallController_register_single_delivery(t)
        \/ MallController_register_multiple_deliveries(t)
        \/ MallController_track_delivery(t)
        \/ MallController_check_delivery_availability(t)
        \/ MallController_cancel_delivery(t)
        \/ MallController_request_return_delivery(t)
        \/ MallController_get_delivery_history(t)
        \/ MallController_update_delivery_status(t)
        \/ RepositoryMethodReturns(t)
        \/ RepositoryMethodRaises(t)
        \/ Endpoint_returns(t)
        \/ Finish(t)

SpecEndpoint == Init /\ [][NextEndpoint]_vars

(***************************************************************************)
(* The handlers of mall_controller.py with a service that may raise, as    *)
(* the controller tests make it: mall_service.<method> is replaced by a    *)
(* double whose side effect is Exception("Service error").                 *)
(***************************************************************************)
ServiceDoubleErrors == {"Service error"}

MallController_service_raises(t) ==
    /\ CanStart(t)
    /\ \E route \in ServiceRoutes, error \in ServiceDoubleErrors :
         task' = [task EXCEPT ![t] =
                    [IdleTask EXCEPT !.pc = "served", !.entry = "endpoint",
                                     !.route = route,
                                     !.failure = Some(error),
                                     !.log = <<"request validation",
                                               "service raises">>]]
    /\ UNCHANGED <<invocations, calls, process>>

NextController ==
    \/ NextEndpoint
    \/ \E t \in Tasks : MallController_service_raises(t)

SpecController == Init /\ [][NextController]_vars

(***************************************************************************)
(* The life of the process: requests that construct clients, and the       *)
(* shutdown part of lifespan.                                              *)
(***************************************************************************)
\* the methods AgencyService and MallService have (their own and those of
\* BaseService)
BaseServiceMethods ==
    {"_validate_auth_info", "_create_default_auth_info", "_handle_service_error",
     "_create_success_response", "health_check"}

AgencyServiceMethods ==
    BaseServiceMethods \cup
    {"generate_authentication_token", "validate_authentication_token",
     "assign_delivery_to_driver", "get_delivery_information_list",
     "get_postal_code_information"}

MallServiceMethods ==
    BaseServiceMethods \cup
    {"register_single_delivery", "register_multiple_deliveries",
     "track_delivery_status", "check_delivery_availability", "cancel_delivery",
     "request_return_delivery", "_validate_delivery_request",
     "_validate_return_request"}

\* BaseRepository.close: await self.client.aclose()
BaseRepository_close(p, service) == [p EXCEPT !.closes[service] = @ + 1]

\* `await app.state.agency_service.close_repository()` then the same on
\* mall_service: looking up a method the object does not have raises
\* AttributeError, which ends lifespan there
Shutdown(p) ==
    IF "close_repository" \notin AgencyServiceMethods
    THEN [p EXCEPT !.phase = "stopped", !.error = Some("AttributeError")]
    ELSE LET q == BaseRepository_close(p, "agency_service") IN
         IF "close_repository" \notin MallServiceMethods
         THEN [q EXCEPT !.phase = "stopped", !.error = Some("AttributeError")]
         ELSE [BaseRepository_close(q, "mall_service") EXCEPT !.phase = "stopped"]

lifespan_shutdown ==
    /\ process.phase = "running"
    /\ \A t \in Tasks : task[t].pc = "idle"
    /\ process' = Shutdown(process)
    /\ UNCHANGED <<task, invocations, calls>>

\* get_service of controllers/agency.py and controllers/mall.py, run for
\* every request to their routes: TodayPickupRepository() builds a client
\* that nothing closes; AgencyService(repo) / MallService(repo) is then
\* given an argument __init__ does not take
get_service(t) ==
    /\ CanStart(t)
    /\ process.created < StartupClients + MaxInvocations
    /\ process' = ClientConstructed(process)
    /\ task' = [task EXCEPT ![t] =
                  [IdleTask EXCEPT
                      !.pc = "replied", !.entry = "dependency",
                      !.op = "get_service",
                      !.result = Some(Raised("TypeError", None, None, None, None)),
                      !.log = <<"TodayPickupRepository()">>]]
    /\ UNCHANGED <<invocations, calls>>

NextProcess ==
    \/ lifespan_shutdown
    \/ \E t \in Tasks :
        \/ BaseRepository_request(t)
        \/ HTTPClient_make_request(t)
        \/ get_service(t)
        \/ UpstreamResponds(t)
        \/ TransportFails(t)
        \/ BaseRepository_handle_response(t)
        \/ Finish(t)

SpecProcess == Init /\ [][NextProcess]_vars

(***************************************************************************)
(* Timeouts.  httpx bounds each client.request by the client's timeout:    *)
(* the value given to httpx.AsyncClient(timeout=...), or the library's     *)
(* default of 5 seconds when the constructor is given none, as in          *)
(* BaseRepository.__init__ and TodayPickupRepository.__init__.  When the   *)
(* upstream stays silent that long, client.request raises                  *)
(* httpx.ReadTimeout, an httpx.RequestError.                               *)
(***************************************************************************)
HTTPX_DEFAULT_TIMEOUT == 5

\* Faulty variant: the client is built with timeout=None, which turns the
\* timeout off.
ClientTimeout_Disabled(c) == None

\* the timeout in force for a call c, None when there is none
ClientTimeout(c) ==
    IF c.timeout = None THEN Some(HTTPX_DEFAULT_TIMEOUT) ELSE c.timeout

\* The upstream has not answered and the timeout of the call elapses.
RequestTimesOut(t) ==
    /\ task[t].pc = "await"
    /\ ClientTimeout(task[t].sent[1]) # None
    /\ task' = [task EXCEPT ![t] =
                  [OnRequestError(task[t], "ReadTimeout") EXCEPT
                      !.log = Append(task[t].log, "timeout")]]
    /\ calls' = calls + (task'[t].nsent - task[t].nsent)
    /\ process' = ClientsOnAnswer(task[t].bridge, process)
    /\ UNCHANGED invocations

NextTimeout ==
    \E t \in Tasks :
        \/ BaseRepository_request(t)
        \/ TodayPickupRepository_request(t)
        \/ HTTPClient_make_request(t)
        \/ UpstreamResponds(t)
        \/ TransportFails(t)
        \/ RequestTimesOut(t)
        \/ BaseRepository_handle_response(t)
        \/ Finish(t)

\* The upstream is free never to answer; the timer of a pending call is
\* not: it runs down.
SpecTimeout ==
    /\ Init
    /\ [][NextTimeout]_vars
    /\ \A t \in Tasks : WF_vars(RequestTimesOut(t))

(***************************************************************************)
(* Concurrent inbound requests.  The services built by lifespan are shared *)
(* by all requests: the coroutines of several requests are inside _request *)
(* of one repository, or inside _make_request of the one http_client, at   *)
(* the same time, each suspended at its own `await client.request(...)`.   *)
(***************************************************************************)
DescriptorsConcurrent ==
    { Descriptor(m, "/api/mall/delivery/INV123", None,
                 Some("address" :> "1 Main St"), h) :
        m \in {"GET", "POST"},
        h \in { Some("Authorization" :> "Bearer t"),
                Some(("Authorization" :> "x") @@ ("Content-Type" :> "text/plain")) } }

\* a coroutine starts whenever it is free, whatever the others are doing
CanStartConcurrently(t) ==
    /\ task[t].pc = "idle"
    /\ invocations < MaxInvocations
    /\ process.phase = "running"

BaseRepository_request_concurrently(t) ==
    /\ CanStartConcurrently(t)
    /\ \E d \in DescriptorsConcurrent : Forward(t, "BaseRepository", d, FALSE)

HTTPClient_make_request_concurrently(t) ==
    /\ CanStartConcurrently(t)
    /\ \E d \in DescriptorsConcurrent : Forward(t, "HTTPClient", d, FALSE)

NextConcurrent ==
    \E t \in Tasks :
        \/ BaseRepository_request_concurrently(t)
        \/ HTTPClient_make_request_concurrently(t)
        \/ UpstreamResponds(t)
        \/ TransportFails(t)
        \/ BaseRepository_handle_response(t)
        \/ Finish(t)

SpecConcurrent == Init /\ [][NextConcurrent]_vars

(***************************************************************************)
(* The JSON body of the body-carrying agency operations.  The body that    *)
(* comes in is a JSON object: a function from the names it carries to None *)
(* (null) or Some(value); a name it does not carry is outside its domain.  *)
(* pydantic builds the DTO of schemas/agency_schemas.py from it, and the   *)
(* repository sends dto.model_dump(exclude_none=True).                     *)
(***************************************************************************)
\* a pydantic model: its fields, the required ones (`Field(...)`), the
\* defaults that are not None, and the model of the items of its list fields
DeliveryAgencyStateUpdateDTO ==
    [fields |-> {"holdCode", "imgUrl", "invoiceNumber", "status"},
     required |-> {}, default |-> EmptyDict, items |-> {}]

PostalCodeSaveDTO ==
    [fields |-> {"buildingCode", "buildingName", "legalDongCode", "roadCode",
                 "roadName", "postNumber", "sido", "gugun", "possibleArea",
                 "deliveryGroup", "adminDong", "legalDong"},
     required |-> {"postNumber", "sido", "gugun", "possibleArea"},
     default |-> EmptyDict, items |-> {}]

PostalCodeListDTO ==
    [fields |-> {"dawnDelivery", "postNumberSaveList"},
     required |-> {"postNumberSaveList"},
     default |-> ("dawnDelivery" :> "N"),
     items |-> {"postNumberSaveList"}]

\* the model of the items of a list field
ItemModel(schema) == PostalCodeSaveDTO

\* validation of a model without list fields: a required field must be
\* there and not null
FieldsValid(schema, body) ==
    \A f \in schema.required : f \in DOMAIN body /\ body[f] # None

\* validation: no ValidationError (which FastAPI answers with a 422)
BodyValid(schema, body) ==
    /\ FieldsValid(schema, body)
    /\ \A f \in schema.items \cap DOMAIN body :
         \A i \in 1..Len(body[f][1]) :
             FieldsValid(ItemModel(schema), body[f][1][i])

\* Faulty variant: a field the body does not carry is None whatever the
\* default of the model is.
FieldValue_NoDefault(schema, body, f) ==
    IF f \in DOMAIN body THEN body[f] ELSE None

\* one field of the model built from the body: the value the body carries
\* (null included), else the default of the field
FieldValue(schema, body, f) ==
    IF f \in DOMAIN body THEN body[f]
    ELSE IF f \in DOMAIN schema.default THEN Some(schema.default[f])
    ELSE None

\* a model without list fields built from the body; a name the model does
\* not declare is ignored
ModelFields(schema, body) ==
    [f \in schema.fields |-> FieldValue(schema, body, f)]

\* the model built from the body, the items of its list fields being
\* models themselves
ModelValidate(schema, body) ==
    [f \in schema.fields |->
        IF f \in schema.items /\ f \in DOMAIN body
        THEN Some([i \in 1..Len(body[f][1]) |->
                      ModelFields(ItemModel(schema), body[f][1][i])])
        ELSE FieldValue(schema, body, f)]

\* dto.model_dump(exclude_none=True) of a model with list fields: the
\* items are dumped the same way
ModelDumpNested(schema, dto) ==
    [k \in {f \in DOMAIN dto : dto[f] # None} |->
        IF k \in schema.items
        THEN [i \in 1..Len(dto[k][1]) |-> ModelDump(dto[k][1][i])]
        ELSE dto[k][1]]

\* the bodies a caller may send for PUT /api/agency/delivery/state: any of
\* the four fields and of one name the model does not know, each null or set
StateUpdateNames == {"holdCode", "imgUrl", "invoiceNumber", "status", "memo"}

StateUpdateBodies ==
    UNION { [S -> {None, Some("INV1"), Some("DELIVERED")}] :
              S \in SUBSET StateUpdateNames }

PostalItem ==
    ("postNumber" :> Some("04524")) @@ ("sido" :> Some("Seoul"))
    @@ ("gugun" :> Some("Jung-gu")) @@ ("possibleArea" :> Some("Y"))

PostalItems ==
    { PostalItem,
      PostalItem @@ ("deliveryGroup" :> Some("G1")) @@ ("adminDong" :> None),
      [f \in {"postNumber", "gugun", "possibleArea"} |-> PostalItem[f]] }

\* the bodies a caller may send for POST /api/agency/postal/save
PostalBodies ==
    { dawn @@ list :
        dawn \in { EmptyDict, "dawnDelivery" :> None,
                   "dawnDelivery" :> Some("Y") },
        list \in { EmptyDict }
                 \cup { "postNumberSaveList" :> Some(<<i>>) : i \in PostalItems }
                 \cup { "postNumberSaveList" :> Some(<<i, PostalItem>>) :
                          i \in PostalItems } }

\* The operation, called with the DTO built from `body`, up to its
\* `await self._request(method, path, data=dto.model_dump(...), headers=..)`.
BodyCall(t, name, method, path, schema, body, token, agency_id) ==
    LET dto == ModelValidate(schema, body)
        tk == [IdleTask EXCEPT !.op = name,
                               !.input = Some([creds |-> <<token, agency_id>>,
                                               arg |-> Some(dto),
                                               body |-> body])]
    IN /\ BodyValid(schema, body)
       /\ task' = [task EXCEPT ![t] =
                     Issue(tk, "repository", "BaseRepository",
                           Descriptor(method, path,
                                      Some(ModelDumpNested(schema, dto)), None,
                                      Some(AgencyHeaders(token, agency_id))))]
       /\ invocations' = invocations + 1
       /\ calls' = calls + task'[t].nsent
       /\ process' = ClientsOnForward("BaseRepository", process)

AgencyRepository_update_delivery_state(t) ==
    /\ CanStart(t)
    /\ \E body \in StateUpdateBodies, token \in Tokens, agency_id \in AgencyIds :
         BodyCall(t, "update_delivery_state", "PUT",
                  "/api/agency/delivery/state", DeliveryAgencyStateUpdateDTO,
                  body, token, agency_id)

AgencyRepository_save_postal_codes(t) ==
    /\ CanStart(t)
    /\ \E body \in PostalBodies, token \in Tokens, agency_id \in AgencyIds :
         BodyCall(t, "save_postal_codes", "POST", "/api/agency/postal/save",
                  PostalCodeListDTO, body, token, agency_id)

NextBody ==
    \E t \in Tasks :
        \/ AgencyRepository_update_delivery_state(t)
        \/ AgencyRepository_save_postal_codes(t)
        \/ UpstreamResponds(t)
        \/ TransportFails(t)
        \/ Repository_returns(t)
        \/ Finish(t)

SpecBody == Init /\ [][NextBody]_vars

(***************************************************************************)
(* The endpoints of agency_controller.py next to those of                  *)
(* mall_controller.py.  Each agency endpoint takes the Authorization and   *)
(* agencyId headers and a body or a path value, awaits one method of       *)
(* request.app.state.agency_service and returns what it gets.  The object  *)
(* stored there is the AgencyService of services/agency_service.py.        *)
(***************************************************************************)
\* per endpoint: the service method it awaits and what it takes besides the
\* two headers
AgencyControllerRoute(method, arg) == [method |-> method, arg |-> arg]

AgencyControllerRoutes ==
    { AgencyControllerRoute("check_auth", "none"),
      AgencyControllerRoute("create_token", "dto"),
      AgencyControllerRoute("update_delivery_ext_order_id", "dto"),
      AgencyControllerRoute("return_delivery_flex", "dto"),
      AgencyControllerRoute("return_delivery_list_flex", "dto"),
      AgencyControllerRoute("find_delivery_list", "path"),
      AgencyControllerRoute("update_delivery_state", "dto"),
      AgencyControllerRoute("find_delivery_by_invoice_list", "path"),
      AgencyControllerRoute("save_postal_codes", "dto") }

\* the answer FastAPI gives when a handler raises something that is not an
\* HTTPException
InternalServerError == [status |-> 500, body |-> "Internal Server Error"]

\* `response_data = await service.<method>(token=authorization,
\* agency_id=agency_id, ...)`: the attribute lookup raises AttributeError
\* when the service has no such method, else the method is awaited
AgencyController_endpoint(t) ==
    /\ CanStart(t)
    /\ \E r \in AgencyControllerRoutes, authorization \in Tokens,
          agency_id \in AgencyIds :
         \E v \in ArgChoices(r.arg) :
             LET tk == [IdleTask EXCEPT
                          !.entry = "endpoint", !.route = r.method,
                          !.op = "AgencyService." \o r.method,
                          !.input = Some(<<authorization, agency_id, v>>),
                          !.log = <<"request validation">>]
             IN task' = [task EXCEPT ![t] =
                           IF r.method \in AgencyServiceMethods
                           THEN [tk EXCEPT !.pc = "called",
                                           !.log = Append(@, "service call")]
                           ELSE [tk EXCEPT !.pc = "replied",
                                           !.failure = Some("AttributeError"),
                                           !.result = Some(InternalServerError)]]
    /\ UNCHANGED <<invocations, calls, process>>

NextLayers ==
    \/ NextEndpoint
    \/ \E t \in Tasks : AgencyController_endpoint(t)

SpecLayers == Init /\ [][NextLayers]_vars

(***************************************************************************)
(* Bulk registration around the limit of 100 deliveries.  The caller       *)
(* builds MultipleDeliveryRegisterRequest(deliveries=[...]), which raises  *)
(* a ValidationError when the schema refuses the list, and then awaits     *)
(* MallService.register_multiple_deliveries.                               *)
(***************************************************************************)
\* lists of one delivery repeated, of the lengths around the limit
LongDeliveryLists ==
    { [k \in 1..n |-> ValidDelivery] :
        n \in (MAX_DELIVERIES_PER_REQUEST - 1)..(MAX_DELIVERIES_PER_REQUEST + 1) }

\* what the constructor of the request raises
ValidationError == Raised("ValidationError", None, None, None, None)

MallService_register_bulk(t) ==
    /\ CanStart(t)
    /\ \E deliveries \in DeliveryLists \cup LongDeliveryLists,
          auth_info \in AuthChoices :
         IF MultipleDeliveryRegisterRequest_validates(deliveries)
         THEN ServiceStart(t, "MallService_register_multiple_deliveries",
                           <<deliveries, auth_info>>,
                           RegisterMultipleDeliveries(deliveries, auth_info))
         ELSE /\ task' = [task EXCEPT ![t] =
                            [IdleTask EXCEPT
                               !.pc = "replied", !.entry = "schema",
                               !.op = "MallService_register_multiple_deliveries",
                               !.input = Some(<<deliveries, auth_info>>),
                               !.result = Some(ValidationError)]]
              /\ UNCHANGED <<invocations, calls, process>>

NextBulk ==
    \/ NextService
    \/ \E t \in Tasks : MallService_register_bulk(t)

SpecBulk == Init /\ [][NextBulk]_vars

(***************************************************************************)
(* MallService._validate_delivery_request called on its own, with requests *)
(* that fail any number of its checks.                                     *)
(***************************************************************************)
ValidatedRequests ==
    { [mall_order_number |-> n, delivery_date |-> d, address |-> a, items |-> i] :
        n \in {"ORDER1", ""},
        d \in {DATE_PADDED, DATE_EMPTY},
        a \in {Some(ValidAddress), None,
               Some([ValidAddress EXCEPT !.zipcode = ""]),
               Some([ValidAddress EXCEPT !.receiver_phone = ""])},
        i \in {<<ValidItem>>, << >>,
               <<ValidItem, [ValidItem EXCEPT !.quantity = 0]>>,
               <<[ValidItem EXCEPT !.price = -1], ValidItem>>,
               <<[ValidItem EXCEPT !.item_name = ""]>>} }

MallService_validate_delivery_request(t) ==
    /\ CanStart(t)
    /\ \E request \in ValidatedRequests :
         task' = [task EXCEPT ![t] =
                    [IdleTask EXCEPT
                       !.pc = "replied", !.entry = "validator",
                       !.op = "MallService_validate_delivery_request",
                       !.input = Some(<<request>>),
                       !.result = Some(ValidateDeliveryRequest(request))]]
    /\ UNCHANGED <<invocations, calls, process>>

NextValidate ==
    \/ NextService
    \/ \E t \in Tasks : MallService_validate_delivery_request(t)

SpecValidate == Init /\ [][NextValidate]_vars

(***************************************************************************)
(* Closing a repository while requests come in.  close() awaits            *)
(* self.client.aclose() and leaves self.client in place; _request and      *)
(* request call self.client.request whatever the state of the client.  A   *)
(* closed httpx.AsyncClient refuses the call with RuntimeError("Cannot     *)
(* send a request, as the client has been closed."), which is neither an   *)
(* HTTPStatusError nor a RequestError and leaves the bridge as it is.      *)
(***************************************************************************)
DescriptorsClosing ==
    { Descriptor(m, "/api/agency/auth", None, None,
                 Some("Authorization" :> "Bearer t")) : m \in {"GET", "POST"} }

ClientClosedError ==
    Raised("RuntimeError", None,
           Some("Cannot send a request, as the client has been closed."),
           None, None)

\* BaseRepository.close, awaited by any holder of the repository at any
\* moment
BaseRepository_close_awaited ==
    /\ process.phase = "running"
    /\ "BaseRepository" \notin process.closed
    /\ process' = [process EXCEPT !.closed = @ \cup {"BaseRepository"}]
    /\ UNCHANGED <<task, invocations, calls>>

\* TodayPickupRepository.close
TodayPickupRepository_close_awaited ==
    /\ process.phase = "running"
    /\ "TodayPickupRepository" \notin process.closed
    /\ process' = [process EXCEPT !.closed = @ \cup {"TodayPickupRepository"}]
    /\ UNCHANGED <<task, invocations, calls>>

\* `await self.client.request(...)` of a repository that may have been
\* closed: on an open client the call goes out and is awaited, on a closed
\* one it is made and raises at once
RequestOnClient(t, variant, d) ==
    IF variant \in process.closed
    THEN /\ task' = [task EXCEPT ![t] =
                       [Issue(IdleTask, "bridge", variant, d) EXCEPT
                           !.op = "forward", !.pc = "done",
                           !.outcome = Some(ClientClosedError)]]
         /\ invocations' = invocations + 1
         /\ calls' = calls + 1
         /\ process' = [process EXCEPT !.late = @ + 1]
    ELSE Forward(t, variant, d, FALSE)

BaseRepository_request_any_time(t) ==
    /\ CanStartConcurrently(t)
    /\ \E d \in DescriptorsClosing : RequestOnClient(t, "BaseRepository", d)

TodayPickupRepository_request_any_time(t) ==
    /\ CanStartConcurrently(t)
    /\ \E d \in DescriptorsClosing : RequestOnClient(t, "TodayPickupRepository", d)

NextClosing ==
    \/ BaseRepository_close_awaited
    \/ TodayPickupRepository_close_awaited
    \/ lifespan_shutdown
    \/ \E t \in Tasks :
        \/ BaseRepository_request_any_time(t)
        \/ TodayPickupRepository_request_any_time(t)
        \/ UpstreamResponds(t)
        \/ TransportFails(t)
        \/ Finish(t)

SpecClosing == Init /\ [][NextClosing]_vars

(***************************************************************************)
(* Properties of the bridge.                                               *)
(***************************************************************************)
CallerHeaders(d) == IF d.headers = None THEN EmptyDict ELSE d.headers[1]
WireHeaders(c) == IF c.headers = None THEN EmptyDict ELSE c.headers[1]

\* the URL httpx requests: the client's base_url, if any, then the url given
EffectiveUrl(c) == (IF c.base_url = None THEN "" ELSE c.base_url[1]) \o c.url

\* C1: the number of client.request calls made equals the number of forward
\* invocations, whatever the outcomes were: each invocation has issued
\* exactly one call, also when it repeats the invocation before it.
C1_OneCallPerInvocation ==
    /\ calls = invocations
    /\ \A t \in Tasks : task[t].pc # "idle" => task[t].nsent = 1

\* C1 case: an invocation failed in transport and the identical
\* invocation made right after it also failed; two calls for two invocations.
C1_Witness ==
    \E t \in Tasks :
        /\ task[t].again
        /\ task[t].pc = "done"
        /\ task[t].failure # None
        /\ invocations = 2
        /\ calls = 2

C4_SuccessYieldsBody ==
    \A t \in Tasks :
        (/\ task[t].pc = "done"
         /\ task[t].response # None
         /\ IsSuccess(task[t].response[1].status_code)) =>
            LET resp == task[t].response[1]
                o == task[t].outcome[1]
            IN /\ o.kind = "return"
               /\ \/ o.text = Some(resp.text)
                  \/ o.data # None /\ o.data = ResponseJson(resp.text)

\* C5 as stated: for a response with a status outside 2xx the bridge raises
\* an error that carries the status code of the response, whatever the body.
C5_NonSuccessRaisesStatus ==
    \A t \in Tasks :
        (/\ task[t].pc = "done"
         /\ task[t].response # None
         /\ ~IsSuccess(task[t].response[1].status_code)) =>
            LET o == task[t].outcome[1]
            IN /\ o.kind = "raise"
               /\ o.status = Some(task[t].response[1].status_code)

(***************************************************************************)
(* Properties of the repositories.                                         *)
(***************************************************************************)
\* what the caller of the layer the task entered at got
Answer(tk) == IF tk.entry = "bridge" THEN tk.outcome[1] ELSE tk.result[1]

IsYMD(s) ==
    /\ Len(s) = 10
    /\ \A k \in {1, 2, 3, 4, 6, 7, 9, 10} : s[k] \in Digit
    /\ s[5] = "-"
    /\ s[8] = "-"

\* the required strings a delivery or return request supplies
AddressStrings(address) ==
    IF address = None THEN {}
    ELSE {address[1].zipcode, address[1].address, address[1].address_detail,
          address[1].receiver_name, address[1].receiver_phone}

DeliveryStrings(d) ==
    {d.mall_order_number} \cup AddressStrings(d.address)
        \cup {d.items[k].item_name : k \in 1..Len(d.items)}

ReturnStrings(r) ==
    {r.original_invoice_number, r.return_reason}
        \cup AddressStrings(r.return_address)
        \cup {r.return_items[k].item_name : k \in 1..Len(r.return_items)}

\* the required strings among the arguments a of service method op
SuppliedStrings(op, a) ==
    CASE op = "MallService_register_single_delivery" -> DeliveryStrings(a[1])
      [] op = "MallService_register_multiple_deliveries" ->
            UNION {DeliveryStrings(a[1][k]) : k \in 1..Len(a[1])}
      [] op = "MallService_track_delivery_status" -> {a[1]}
      [] op = "MallService_check_delivery_availability" -> {a[1]}
      [] op = "MallService_cancel_delivery" -> {a[1], a[2]}
      [] op = "MallService_request_return_delivery" -> ReturnStrings(a[1])
      [] op = "AgencyService_generate_authentication_token" -> {a[1], a[2]}
      [] op = "AgencyService_validate_authentication_token" -> {a[1]}
      [] op = "AgencyService_assign_delivery_to_driver" -> {a[1]}
      [] op = "AgencyService_get_postal_code_information" -> {a[1]}
      [] OTHER -> {}

\* the dates among the arguments
SuppliedDates(op, a) ==
    CASE op = "MallService_register_single_delivery" -> {a[1].delivery_date}
      [] op = "MallService_register_multiple_deliveries" ->
            {a[1][k].delivery_date : k \in 1..Len(a[1])}
      [] op = "MallService_check_delivery_availability" -> {a[2]}
      [] op = "AgencyService_get_delivery_information_list" -> {a[1]}
      [] OTHER -> {}

\* the auth info among the arguments (none for health_check and
\* generate_authentication_token)
SuppliedAuth(op, a) ==
    CASE op \in HealthCheckOps -> {}
      [] op = "AgencyService_generate_authentication_token" -> {}
      [] op = "MallService_check_delivery_availability" -> {a[3]}
      [] op = "MallService_cancel_delivery" -> {a[3]}
      [] OTHER -> {a[2]}

\* page and size
SuppliedNumbers(op, a) ==
    IF op = "AgencyService_get_delivery_information_list" THEN {a[4], a[5]}
    ELSE {}

BlankAuth(auth_info) ==
    \/ auth_info = None
    \/ auth_info[1].agency_id \in {"", " ", "  "}
    \/ auth_info[1].auth_token \in {"", " ", "  "}

\* a caller-supplied field is missing or malformed: an empty required
\* string, a date not in YYYY-MM-DD form, invalid auth info, a non-positive
\* page or size
InvalidInput(op, a) ==
    \/ \E auth_info \in SuppliedAuth(op, a) : BlankAuth(auth_info)
    \/ "" \in SuppliedStrings(op, a)
    \/ \E date \in SuppliedDates(op, a) : ~IsYMD(date)
    \/ \E n \in SuppliedNumbers(op, a) : n <= 0

\* C9 as stated: a service method given a missing or malformed field calls
\* no repository method and returns a failure envelope.
C9_InvalidInputNeverReachesRepository ==
    \A t \in Tasks :
        (/\ task[t].entry = "service"
         /\ task[t].pc \in {"repo", "replied"}
         /\ InvalidInput(task[t].op, task[t].input[1])) =>
            /\ task[t].repoCalls = 0
            /\ task[t].pc = "replied"
            /\ ~task[t].result[1].success

\* the deliveries of the list (numbered from 0) that fail validation
InvalidIndexes(deliveries) ==
    {k \in 0..(Len(deliveries) - 1) :
        ~ValidateDeliveryRequest(deliveries[k + 1]).is_valid}

Least(S) == CHOOSE k \in S : \A l \in S : k <= l

\* C10: a service method makes at most one repository call and answers
\* success exactly when that call returned; register_multiple_deliveries
\* with usable auth info and a non-empty list calls the repository only when
\* every delivery is valid, once and with the whole list, and otherwise
\* answers INVALID_REQUEST naming the first invalid index, having called
\* nothing.
C10_NoPartialSuccess ==
    \A t \in Tasks :
        (task[t].entry = "service" /\ task[t].pc \in {"repo", "replied"}) =>
            /\ task[t].repoCalls <= 1
            /\ task[t].pc = "replied" =>
                  /\ task[t].result[1].success <=>
                        (task[t].repoCalls = 1
                            /\ task[t].log[Len(task[t].log)] = "repository returns")
                  /\ ~task[t].result[1].success => task[t].result[1].data = None
            /\ (/\ task[t].op = "MallService_register_multiple_deliveries"
                /\ ValidateAuthInfo(task[t].input[1][2])
                /\ Len(task[t].input[1][1]) > 0) =>
                  LET deliveries == task[t].input[1][1]
                      invalid == InvalidIndexes(deliveries)
                  IN IF invalid = {}
                     THEN /\ task[t].repoCalls = 1
                          /\ task[t].repoArgs[1].method = "register_multiple_deliveries"
                          /\ task[t].repoArgs[1].args[1] = deliveries
                     ELSE /\ task[t].repoCalls = 0
                          /\ task[t].pc = "replied"
                          /\ ~task[t].result[1].success
                          /\ task[t].result[1].error_code = Some("INVALID_REQUEST")
                          /\ task[t].result[1].message =
                                "Invalid delivery at index "
                                    \o ToString(Least(invalid)) \o ": "
                                    \o ValidateDeliveryRequest(
                                          deliveries[Least(invalid) + 1]).message

\* C10 case: a list of two deliveries whose second one is invalid was
\* rejected naming index 1, with no repository call.
C10_Witness ==
    \E t \in Tasks :
        /\ task[t].pc = "replied"
        /\ task[t].op = "MallService_register_multiple_deliveries"
        /\ Len(task[t].input[1][1]) = 2
        /\ InvalidIndexes(task[t].input[1][1]) = {1}
        /\ task[t].repoCalls = 0
        /\ task[t].result[1].message =
              "Invalid delivery at index 1: Mall order number is required"

(***************************************************************************)
(* Properties of the endpoints.                                            *)
(***************************************************************************)
Validations == {"request validation", "service validation"}

\* C8 as stated: an endpoint never makes more than one repository call,
\* makes none before a validation step, and answers 200 only after exactly
\* one repository call.
C8_ValidateThenCallOnce ==
    \A t \in Tasks :
        task[t].entry = "endpoint" =>
            /\ task[t].repoCalls <= 1
            /\ \A i, j \in 1..Len(task[t].log) :
                   (i < j /\ task[t].log[i] = "repository call") =>
                       task[t].log[j] \notin Validations
            /\ (task[t].pc = "replied" /\ task[t].result[1].status = 200) =>
                   task[t].repoCalls = 1

(***************************************************************************)
(* Properties of the process.                                              *)
(***************************************************************************)
\* C11 as stated: the number of httpx clients constructed does not grow
\* while requests are handled; it stays at the clients built at startup.
C11_ClientsConstructedOnce == process.created = StartupClients

\* C12 as stated: once shutdown has completed, the client of the agency
\* service's repository and the client of the mall service's repository
\* have each been closed exactly once, and no client is left open.
C12_ShutdownClosesEveryClient ==
    process.phase = "stopped" =>
        /\ process.closes.agency_service = 1
        /\ process.closes.mall_service = 1
        /\ process.open = 0

OwnOutcome(tk) ==
    IF tk.failure # None
    THEN Raised("RequestError", None, None, None, tk.failure)
    ELSE IF tk.bridge = "HTTPClient"
    THEN IF tk.pc = "returned"
         THEN HTTPClient_make_request_result(tk.response[1])
         ELSE HandleResponse(tk.response[1])
    ELSE RaiseForStatus(tk.response[1])

\* an invocation in progress or completed is as its own inputs make it
Independent(tk) ==
    /\ tk.sent = Some(BridgeCall(tk.bridge, tk.desc[1]))
    /\ tk.nsent = 1
    /\ tk.pc \in {"returned", "done"} => tk.outcome = Some(OwnOutcome(tk))

C15_TransportFailureIsServerError ==
    \A t \in Tasks :
        (/\ task[t].entry = "endpoint"
         /\ task[t].pc = "replied"
         /\ task[t].failure # None
         /\ task[t].failure[1] \in TransportErrors) =>
            task[t].result[1].status >= 500

(***************************************************************************)
(* Properties of the JSON body sent upstream.                              *)
(***************************************************************************)
BodyOps == {"update_delivery_state", "save_postal_codes"}

SchemaOf(op) ==
    IF op = "save_postal_codes" THEN PostalCodeListDTO
    ELSE DeliveryAgencyStateUpdateDTO

\* the names of `schema` that go out for `body`
NamesSent(schema, body) ==
    { f \in schema.fields :
        \/ f \in DOMAIN body /\ body[f] # None
        \/ f \notin DOMAIN body /\ f \in DOMAIN schema.default }

\* `out` carries, under their own names, the declared fields `body` sets to
\* a value and the defaults of the declared fields `body` lacks
CarriedFlat(schema, body, out) ==
    /\ DOMAIN out = NamesSent(schema, body)
    /\ \A f \in DOMAIN out :
         out[f] = IF f \in DOMAIN body THEN body[f][1] ELSE schema.default[f]

Carried(schema, body, out) ==
    /\ DOMAIN out = NamesSent(schema, body)
    /\ \A f \in DOMAIN out :
         IF f \in schema.items
         THEN /\ Len(out[f]) = Len(body[f][1])
              /\ \A i \in 1..Len(out[f]) :
                   CarriedFlat(ItemModel(schema), body[f][1][i], out[f][i])
         ELSE out[f] = IF f \in DOMAIN body THEN body[f][1]
                       ELSE schema.default[f]

\* `out` has exactly the names of `body`, each with the value `body` gives
SameFlat(body, out) ==
    /\ DOMAIN out = DOMAIN body
    /\ \A f \in DOMAIN body : body[f] = Some(out[f])

Same(schema, body, out) ==
    /\ DOMAIN out = DOMAIN body
    /\ \A f \in DOMAIN body :
         IF f \in schema.items
         THEN /\ body[f] # None
              /\ Len(out[f]) = Len(body[f][1])
              /\ \A i \in 1..Len(out[f]) :
                   SameFlat(body[f][1][i], out[f][i])
         ELSE body[f] = Some(out[f])

BodySent(tk) == tk.op \in BodyOps /\ tk.sent # None

\* C16 as stated: the outbound JSON object has exactly the fields of the
\* inbound body, with the same names and values; nothing is added or dropped.
C16_BodyUnaltered ==
    \A t \in Tasks :
        BodySent(task[t]) =>
            /\ task[t].sent[1].json # None
            /\ Same(SchemaOf(task[t].op), task[t].input[1].body,
                    task[t].sent[1].json[1])

\* C16, amended: the outbound JSON object carries every declared field the
\* inbound body sets to a value, under the same camelCase name and with the
\* same value; a field the body gives as null is left out, a field the body
\* lacks goes out with the default of the DTO when it has one (dawnDelivery
\* "N"), and a name the DTO does not declare is not sent.
C16_BodyCarriesDeclaredFields ==
    \A t \in Tasks :
        BodySent(task[t]) =>
            /\ task[t].sent[1].json # None
            /\ Carried(SchemaOf(task[t].op), task[t].input[1].body,
                       task[t].sent[1].json[1])

\* a postal code list without dawnDelivery has gone out with dawnDelivery "N"
C16_Witness ==
    \E t \in Tasks :
        /\ BodySent(task[t])
        /\ task[t].op = "save_postal_codes"
        /\ "dawnDelivery" \notin DOMAIN task[t].input[1].body
        /\ task[t].sent[1].json[1]["dawnDelivery"] = "N"
        /\ task[t].pc = "replied"

(***************************************************************************)
(* Properties of what a forward invocation leaves behind.                  *)
(***************************************************************************)
Invoked(tk) == tk.entry = "bridge" /\ tk.sent # None

\* the caller's mappings hold what they held when the call was made
CallerMappingsKept(tk) ==
    /\ tk.objects[1].headers = tk.desc[1].headers
    /\ tk.objects[1].params = tk.desc[1].params
    /\ tk.objects[1].data = tk.desc[1].data

\* C17: a forward invocation leaves the base URL, timeout and client
\* reference of the bridge and the caller's header, parameter and body
\* mappings as they were, whether the call succeeds or fails.
C17_ForwardMutatesNothing ==
    /\ process.attrs = BridgeAttributes
    /\ \A t \in Tasks : Invoked(task[t]) => CallerMappingsKept(task[t])

\* HTTPClient._make_request has merged the caller's headers into its
\* defaults and the call has failed
C17_Witness ==
    \E t \in Tasks :
        /\ Invoked(task[t])
        /\ task[t].bridge = "HTTPClient"
        /\ Truthy(task[t].desc[1].headers)
        /\ task[t].sent[1].headers = task[t].objects[1].default_headers
        /\ task[t].sent[1].headers # Some(DefaultHeaders)
        /\ task[t].failure # None
        /\ task[t].pc = "done"

(***************************************************************************)
(* Properties of the layers.                                               *)
(***************************************************************************)
\* the endpoint has answered 200 with the value its service returned, the
\* service having made one repository call and returned the value that call
\* gave, unchanged
PassedThrough(tk) ==
    /\ tk.result[1].status = 200
    /\ tk.repoCalls = 1
    /\ tk.envelope # None
    /\ tk.result[1].body = tk.envelope[1]
    /\ tk.envelope[1].data # None
    /\ tk.envelope[1] = tk.envelope[1].data[1]

\* C18 as stated: every agency and mall endpoint, for a request that passes
\* FastAPI's validation, calls its service method once, the service calls
\* its repository method once, and each layer returns the lower layer's
\* result unchanged, with HTTP 200 at the endpoint.
C18_LayersPassThrough ==
    \A t \in Tasks :
        (/\ task[t].entry = "endpoint"
         /\ task[t].pc = "replied"
         /\ task[t].result[1] # RequestValidationError)
            => PassedThrough(task[t])

(***************************************************************************)
(* Properties of the envelopes of the services.                            *)
(***************************************************************************)
MallOperations ==
    {"MallService_register_single_delivery",
     "MallService_register_multiple_deliveries",
     "MallService_track_delivery_status",
     "MallService_check_delivery_availability",
     "MallService_cancel_delivery"}

\* a date of the calendar written YYYY-MM-DD
IsCalendarDate(s) ==
    /\ IsYMD(s)
    /\ IntOf(SubSeq(s, 1, 4)) >= 1
    /\ IntOf(SubSeq(s, 6, 7)) \in 1..12
    /\ IntOf(SubSeq(s, 9, 10)) \in
          1..DaysInMonth(IntOf(SubSeq(s, 1, 4)), IntOf(SubSeq(s, 6, 7)))

\* a delivery with an address, at least one item, and items of a positive
\* quantity and a price that is not negative
DeliveryComplete(d) ==
    /\ d.address # None
    /\ Len(d.items) > 0
    /\ \A k \in 1..Len(d.items) : d.items[k].quantity > 0 /\ d.items[k].price >= 0

SuppliedDeliveries(op, a) ==
    CASE op = "MallService_register_single_delivery" -> {a[1]}
      [] op = "MallService_register_multiple_deliveries" ->
            {a[1][k] : k \in 1..Len(a[1])}
      [] OTHER -> {}

\* valid auth info and valid input: no required string empty or blank,
\* every date a date of the calendar, every delivery complete, and a list
\* of deliveries that is not empty
ValidCall(op, a) ==
    /\ ~InvalidInput(op, a)
    /\ SuppliedStrings(op, a) \cap {" ", "  "} = {}
    /\ \A date \in SuppliedDates(op, a) : IsCalendarDate(date)
    /\ \A d \in SuppliedDeliveries(op, a) : DeliveryComplete(d)
    /\ op = "MallService_register_multiple_deliveries" => Len(a[1]) > 0

\* the service method has returned to its caller
ServiceReturned(tk) == tk.entry = "service" /\ tk.pc = "replied"

OperationName(op) == ServiceMessages[op][2]

\* C20: no MallService or AgencyService operation raises: every operation
\* returns an envelope, and when the repository call failed the envelope has
\* success = false, error_code = "SERVICE_ERROR", data = null and the
\* message "<operation> failed: <error>".
C20_RepositoryFailureIsEnvelope ==
    \A t \in Tasks :
        ServiceReturned(task[t]) =>
            /\ task[t].result # None
            /\ task[t].result[1].success \in BOOLEAN
            /\ task[t].failure # None =>
                 /\ task[t].result[1].success = FALSE
                 /\ task[t].result[1].error_code = Some("SERVICE_ERROR")
                 /\ task[t].result[1].data = None
                 /\ task[t].result[1].message =
                        OperationName(task[t].op) \o " failed: " \o task[t].failure[1]

\* generate_authentication_token has returned the envelope of a repository
\* call that could not connect
C20_Witness ==
    \E t \in Tasks :
        /\ ServiceReturned(task[t])
        /\ task[t].op = "AgencyService_generate_authentication_token"
        /\ task[t].repoCalls = 1
        /\ task[t].failure = Some("Connection failed")
        /\ task[t].result[1].error_code = Some("SERVICE_ERROR")
        /\ task[t].result[1].message = "Token generation failed: Connection failed"

(***************************************************************************)
(* Properties of the answers of the envelope-style endpoints.              *)
(***************************************************************************)
\* the handler has answered a request that reached its service call
Answered(tk) ==
    /\ tk.entry = "endpoint"
    /\ tk.pc = "replied"
    /\ tk.route \in ServiceRoutes
    /\ tk.result[1] # RequestValidationError

\* 400 with the message and error_code of the failure envelope
IsBadRequestOf(result, envelope) ==
    /\ result.status = 400
    /\ result.body = [detail |-> [message |-> envelope.message,
                                  error_code |-> envelope.error_code]]

\* 500 with the fixed detail of the route
IsFixedFailure(result, route) ==
    /\ result.status = 500
    /\ result.body = [detail |-> FailureDetails[route]]

\* 400 for a failure envelope, 500 for a service call that raised, 200
\* otherwise
AnswersByEnvelope(tk) ==
    IF tk.envelope = None THEN IsFixedFailure(tk.result[1], tk.route)
    ELSE IF ~tk.envelope[1].success
    THEN IsBadRequestOf(tk.result[1], tk.envelope[1])
    ELSE tk.result[1].status = 200

\* C21 as stated: every envelope-style endpoint answers 400 with the
\* service's message and error_code when the service returns success =
\* false, 500 with a fixed detail when the service call raises, and 200
\* otherwise.
C21_EnvelopeStatus ==
    \A t \in Tasks : Answered(task[t]) => AnswersByEnvelope(task[t])

\* C21, amended: the same for every envelope-style endpoint but GET /health,
\* which answers 200 with the envelope it got whether success is true or
\* false, and 500 with its fixed detail when the service call raises; the
\* 400 of a failure envelope is never turned into a 500.
C21_EnvelopeStatusButHealth ==
    \A t \in Tasks :
        Answered(task[t]) =>
            IF task[t].route = "health_check" /\ task[t].envelope # None
            THEN task[t].result[1] = [status |-> 200, body |-> task[t].envelope[1]]
            ELSE AnswersByEnvelope(task[t])

\* POST /deliveryRegister has answered 400 for the SERVICE_ERROR envelope of
\* its service: the HTTPException(400) went through the handler's clauses
C21_Witness ==
    \E t \in Tasks :
        /\ Answered(task[t])
        /\ task[t].route = "register_single_delivery"
        /\ task[t].envelope # None
        /\ task[t].envelope[1].error_code = Some("SERVICE_ERROR")
        /\ task[t].result[1].status = 400

(***************************************************************************)
(* Properties of the checks the services make before the repository call.  *)
(***************************************************************************)
\* the operation takes auth info
TakesAuth(tk) == SuppliedAuth(tk.op, tk.input[1]) # {}

\* the auth info it was given lacks the agency id or the token
GivenBlankAuth(tk) ==
    \E auth_info \in SuppliedAuth(tk.op, tk.input[1]) : BlankAuth(auth_info)

\* some other argument is invalid as well
OtherFieldInvalid(tk) ==
    \/ SuppliedStrings(tk.op, tk.input[1]) \cap {"", " ", "  "} # {}
    \/ \E date \in SuppliedDates(tk.op, tk.input[1]) : ~IsYMD(date)
    \/ \E n \in SuppliedNumbers(tk.op, tk.input[1]) : n <= 0

\* C22: an operation that takes auth info and is given auth info whose
\* agency id or token is missing, empty or whitespace-only returns success =
\* false with error_code INVALID_AUTH and calls no repository method,
\* whatever else is wrong with the request.
C22_InvalidAuthFirst ==
    \A t \in Tasks :
        (ServiceReturned(task[t]) /\ TakesAuth(task[t]) /\ GivenBlankAuth(task[t]))
            => /\ task[t].result[1].success = FALSE
               /\ task[t].result[1].error_code = Some("INVALID_AUTH")
               /\ task[t].result[1].data = None
               /\ task[t].repoCalls = 0

\* an operation given a whitespace-only token and an invalid field as well
\* has answered INVALID_AUTH
C22_Witness ==
    \E t \in Tasks :
        /\ ServiceReturned(task[t])
        /\ TakesAuth(task[t])
        /\ \E auth_info \in SuppliedAuth(task[t].op, task[t].input[1]) :
             auth_info # None /\ auth_info[1].auth_token = "  "
        /\ OtherFieldInvalid(task[t])
        /\ task[t].result[1].error_code = Some("INVALID_AUTH")
        /\ task[t].repoCalls = 0

FieldCheckedOperations ==
    {"MallService_track_delivery_status", "MallService_cancel_delivery",
     "MallService_check_delivery_availability"}

\* a required string or the delivery date is empty
EmptyRequired(tk) ==
    \/ "" \in SuppliedStrings(tk.op, tk.input[1])
    \/ DATE_EMPTY \in SuppliedDates(tk.op, tk.input[1])

\* the delivery date is there and is not a date written YYYY-MM-DD
MalformedDate(tk) ==
    \E date \in SuppliedDates(tk.op, tk.input[1]) :
        date # DATE_EMPTY /\ ~IsCalendarDate(date)

\* C23 as stated: with valid auth info, an empty required string gives
\* INVALID_INPUT, else a delivery date that is not a valid YYYY-MM-DD date
\* gives INVALID_DATE_FORMAT; in both cases success = false and data = null
\* (track_delivery_status, cancel_delivery, check_delivery_availability).
C23_FirstFailingFieldCheck ==
    \A t \in Tasks :
        (/\ ServiceReturned(task[t])
         /\ task[t].op \in FieldCheckedOperations
         /\ ~GivenBlankAuth(task[t])
         /\ EmptyRequired(task[t]) \/ MalformedDate(task[t]))
            => /\ task[t].result[1].success = FALSE
               /\ task[t].result[1].data = None
               /\ task[t].result[1].error_code =
                    IF EmptyRequired(task[t]) THEN Some("INVALID_INPUT")
                    ELSE Some("INVALID_DATE_FORMAT")

\* a bulk registration, and the number of deliveries it holds
IsBulk(tk) == tk.op = "MallService_register_multiple_deliveries"
BulkSize(tk) == Len(tk.input[1][1])

\* C24: a bulk registration reaches the repository only when its list holds
\* between 1 and 100 deliveries; an empty list returns EMPTY_DELIVERY_LIST,
\* and a list of more than 100 cannot be made into a
\* MultipleDeliveryRegisterRequest and never reaches the repository.
C24_BulkWithinLimits ==
    \A t \in Tasks :
        IsBulk(task[t]) =>
            /\ task[t].repoCalls > 0 => BulkSize(task[t]) \in 1..100
            /\ (/\ task[t].pc = "replied"
                /\ BulkSize(task[t]) = 0
                /\ ~GivenBlankAuth(task[t]))
                   => /\ task[t].result[1].success = FALSE
                      /\ task[t].result[1].error_code = Some("EMPTY_DELIVERY_LIST")
            /\ BulkSize(task[t]) > 100
                   => /\ task[t].result = Some(ValidationError)
                      /\ task[t].repoCalls = 0

\* a list of 101 deliveries has been refused by the schema, no repository
\* call made
C24_Witness ==
    \E t \in Tasks :
        /\ IsBulk(task[t])
        /\ BulkSize(task[t]) = 101
        /\ task[t].pc = "replied"
        /\ task[t].result = Some(ValidationError)
        /\ task[t].repoCalls = 0

(***************************************************************************)
(* Properties of MallRepository.possible_delivery.                         *)
(***************************************************************************)
PossibleDeliverySent(tk) == tk.op = "possible_delivery" /\ tk.sent # None

\* one GET of /api/mall/possibleDelivery with the caller's token and address
PossibleDeliveryCall(tk) ==
    /\ tk.nsent = 1
    /\ tk.sent[1].method = "GET"
    /\ tk.sent[1].url = "/api/mall/possibleDelivery"
    /\ tk.sent[1].json = None
    /\ tk.sent[1].headers = Some("Authorization" :> tk.input[1].creds[1])
    /\ tk.sent[1].params # None
    /\ "address" \in DOMAIN tk.sent[1].params[1]
    /\ tk.sent[1].params[1]["address"] = tk.input[1].arg[1].address

\* parameter `name` is there, with the value given, exactly when `given`
CarriedWhen(tk, name, value, given) ==
    IF given
    THEN name \in DOMAIN tk.sent[1].params[1] /\ tk.sent[1].params[1][name] = value[1]
    ELSE name \notin DOMAIN tk.sent[1].params[1]

\* C25 as stated: postalCode and dawnDelivery are among the parameters
\* exactly when the caller supplied them.
C25_OptionalParamsWhenSupplied ==
    \A t \in Tasks :
        PossibleDeliverySent(task[t]) =>
            LET q == task[t].input[1].arg[1] IN
            /\ PossibleDeliveryCall(task[t])
            /\ CarriedWhen(task[t], "postalCode", q.postal_code, q.postal_code # None)
            /\ CarriedWhen(task[t], "dawnDelivery", q.dawn_delivery,
                           q.dawn_delivery # None)

\* C25, amended: postalCode and dawnDelivery are among the parameters
\* exactly when the caller supplied a value that is not the empty string;
\* nothing else but address is there.
C25_OptionalParamsWhenNonEmpty ==
    \A t \in Tasks :
        PossibleDeliverySent(task[t]) =>
            LET q == task[t].input[1].arg[1] IN
            /\ PossibleDeliveryCall(task[t])
            /\ CarriedWhen(task[t], "postalCode", q.postal_code,
                           q.postal_code \notin {None, Some("")})
            /\ CarriedWhen(task[t], "dawnDelivery", q.dawn_delivery,
                           q.dawn_delivery \notin {None, Some("")})
            /\ DOMAIN task[t].sent[1].params[1]
                  \subseteq {"address", "postalCode", "dawnDelivery"}

\* a call given a postal code and an empty dawn_delivery has gone out with
\* address and postalCode only
C25_Witness ==
    \E t \in Tasks :
        /\ PossibleDeliverySent(task[t])
        /\ task[t].input[1].arg[1].dawn_delivery = Some("")
        /\ DOMAIN task[t].sent[1].params[1] = {"address", "postalCode"}
        /\ task[t].pc = "replied"

(***************************************************************************)
(* Properties of BaseRepository._handle_response.                          *)
(***************************************************************************)
ResponseHandled(tk) ==
    /\ tk.entry = "bridge"
    /\ tk.bridge = "HTTPClient"
    /\ tk.pc = "done"
    /\ tk.response # None

\* C26 as stated: _handle_response returns the parsed JSON body when the
\* status is 2xx, and for any other status raises the "API Error" exception
\* with the parsed body or, when the body does not parse, with the original
\* error message and the status code.
C26_HandleResponseByStatus ==
    \A t \in Tasks :
        ResponseHandled(task[t]) =>
            LET resp == task[t].response[1]
                out == task[t].outcome[1]
            IN IF IsSuccess(resp.status_code)
               THEN out.kind = "return"
               ELSE /\ out.kind = "raise"
                    /\ out.type = "Exception"
                    /\ IF ResponseJson(resp.text) # None
                       THEN out.data = ResponseJson(resp.text)
                       ELSE /\ out.status = Some(resp.status_code)
                            /\ out.text = Some("HTTPStatusError")

(***************************************************************************)
(* Properties of MallService._validate_delivery_request.                   *)
(***************************************************************************)
Validated(tk) ==
    tk.op = "MallService_validate_delivery_request" /\ tk.pc = "replied"

\* the checks in the order stated, each with the message it reports
DeliveryChecks(request) ==
    << [fails |-> request.mall_order_number = "",
        message |-> "Mall order number is required"],
       [fails |-> request.delivery_date = DATE_EMPTY,
        message |-> "Delivery date is required"],
       [fails |-> request.address = None,
        message |-> "Address information is required"],
       [fails |-> request.items = << >>,
        message |-> "At least one item is required"],
       [fails |-> request.address # None /\ \E f \in {"zipcode", "address",
                      "receiver_name", "receiver_phone"} :
                          request.address[1][f] = "",
        message |-> "Complete address information is required"] >>
    \o [k \in 1..Len(request.items) |->
          [fails |-> \/ request.items[k].item_name = ""
                     \/ request.items[k].quantity <= 0
                     \/ request.items[k].price < 0,
           message |-> "Invalid item information"]]

FailingChecks(request) ==
    {k \in 1..Len(DeliveryChecks(request)) : DeliveryChecks(request)[k].fails}

FirstFailing(request) ==
    CHOOSE k \in FailingChecks(request) :
        \A l \in FailingChecks(request) : k <= l

\* C27: _validate_delivery_request reports the first check that fails, in
\* the order mall order number, delivery date, address present, at least one
\* item, complete address, each item in list order; the request is valid
\* only when no check fails.
C27_FirstFailingCheck ==
    \A t \in Tasks :
        Validated(task[t]) =>
            LET request == task[t].input[1][1]
                result == task[t].result[1]
            IN IF FailingChecks(request) = {}
               THEN result.is_valid
               ELSE /\ ~result.is_valid
                    /\ result.message =
                         DeliveryChecks(request)[FirstFailing(request)].message

\* a request with no item and an incomplete address has been reported as
\* having no item
C27_Witness ==
    \E t \in Tasks :
        /\ Validated(task[t])
        /\ task[t].input[1][1].items = << >>
        /\ task[t].input[1][1].address # None
        /\ task[t].input[1][1].address[1].zipcode = ""
        /\ task[t].result[1].message = "At least one item is required"

(***************************************************************************)
(* Properties of the envelopes of the services.                            *)
(***************************************************************************)
EnvelopeKeys == {"success", "message", "data", "error_code"}

\* C28: every envelope a MallService or AgencyService operation returns has
\* the keys success, message, data and error_code, with success = true
\* exactly when error_code is null and with data = null when success = false.
C28_EnvelopeShape ==
    \A t \in Tasks :
        ServiceReturned(task[t]) =>
            LET envelope == task[t].result[1] IN
            /\ DOMAIN envelope = EnvelopeKeys
            /\ envelope.success = (envelope.error_code = None)
            /\ ~envelope.success => envelope.data = None

\* a return request refused by validation has been answered with a failure
\* envelope, no repository call made
C28_Witness ==
    \E t \in Tasks :
        /\ ServiceReturned(task[t])
        /\ task[t].op = "MallService_request_return_delivery"
        /\ task[t].repoCalls = 0
        /\ task[t].result[1].success = FALSE
        /\ task[t].result[1].error_code = Some("INVALID_REQUEST")
        /\ task[t].result[1].data = None

(***************************************************************************)
(* Properties of AgencyService.get_delivery_information_list.              *)
(***************************************************************************)
ListsDeliveries(tk) == tk.op = "AgencyService_get_delivery_information_list"

\* the four checks in the order stated, as <<fails, code>>
ListingChecks(tk) ==
    LET a == tk.input[1] IN
    << <<BlankAuth(a[2]), "INVALID_AUTH">>,
       <<a[1] = DATE_EMPTY, "INVALID_INPUT">>,
       <<~IsCalendarDate(a[1]), "INVALID_DATE_FORMAT">>,
       <<a[4] < 1 \/ a[5] < 1, "INVALID_PAGINATION">> >>

FailingListingChecks(tk) == {k \in 1..4 : ListingChecks(tk)[k][1]}

FirstFailingListingCheck(tk) ==
    CHOOSE k \in FailingListingChecks(tk) :
        \A l \in FailingListingChecks(tk) : k <= l

C30_NoRequestAfterClose == process.late = 0

====
